---- MODULE Spec2Model ----
(***************************************************************************)
(* Disk_Health_Monitor: the SMART telemetry synthesis of                   *)
(* disk_health/smart.py, the sampling loop and the statistics of           *)
(* disk_health/benchmark.py, run_cmd and query_smart_json of                *)
(* disk_health/utils.py, AsyncWorker of disk_health/workers.py, and the    *)
(* check and benchmark handlers of disk_health/ui/main_window.py.          *)
(*                                                                         *)
(* Python values are tagged records (one shape for every value), Python   *)
(* strings are sequences of one-character strings, and a call that ends    *)
(* in an exception is a result whose exc field names the exception.        *)
(***************************************************************************)
EXTENDS Integers, Sequences, FiniteSets, TLC

VARIABLES
    pc,          \* position of the call or of the worker's run
    device,      \* the device identifier (a Python str)
    payload,     \* SmartPayload: [json, raw]
    report,      \* outcome of synthesize_report
    detected,    \* outcome of a direct call of _detect_disk_type
    verdict,     \* outcome of a direct call of a _determine_health_* helper
    total_size,  \* BenchmarkWorker: size found by _get_file_size
    sample_count,\* BenchmarkWorker.sample_count
    block_size,  \* BenchmarkWorker.block_size
    i,           \* BenchmarkWorker._run_benchmark: loop index
    seeks,       \* offsets handed to file_obj.seek by _measure_seek_time, in order
    seek_time,   \* _run_benchmark: seek_time of the current sample
    read_speed,  \* _run_benchmark: read_speed of the current sample
    read_speeds, \* the read_speeds list of run
    access_times,\* the access_times list of run
    positions,   \* the positions list of run
    emitted,     \* what the progress signal carried, in emission order
    finished,    \* what the finished signal carried, in emission order
    outcome,     \* how run ended: finished, or the error shown
    error,       \* the exception raised inside the try of run, "" when none
    shown,       \* the error boxes run has shown, in order
    args,        \* arguments of a direct call of a function of benchmark.py
    result,      \* what the direct call returned
    cmd,         \* run_cmd: the command, by what executing it does
    process,     \* run_cmd: the local variable process, bound or not
    child,       \* the child process of run_cmd
    clock,       \* time units since run_cmd entered asyncio.timeout
    expired,     \* whether the timeout of run_cmd has expired
    cmd_result,  \* how run_cmd ended
    coroutine,   \* AsyncWorker.coroutine, by what awaiting it does
    found,       \* what shutil.which("smartctl") finds
    returned,    \* how asyncio.run(self.coroutine) ended
    delivered,   \* what AsyncWorker.finished carried, in emission order
    window,      \* SmartMonitor and its panels: what the window displays
    threads,     \* SmartMonitor.threads: the workers started, in order
    events,      \* signal emissions queued for the main thread, in order
    completed    \* what _on_smart_check_finished was handed, in order

vars == <<pc, device, payload, report, detected, verdict,
          total_size, sample_count, block_size, i, seeks, seek_time, read_speed,
          read_speeds, access_times, positions, emitted, finished, outcome,
          error, shown, args, result, cmd, process, child, clock, expired, cmd_result,
          coroutine, found, returned, delivered, window, threads, events, completed>>

smartVars == <<device, payload, report, detected, verdict>>
errVars == <<error, shown>>
runVars == <<total_size, sample_count, block_size, i, seeks, seek_time, read_speed,
             read_speeds, access_times, positions, emitted, finished, outcome, errVars>>
callVars == <<args, result>>
benchVars == <<runVars, callVars>>
cmdVars == <<cmd, process, child, clock, expired, cmd_result>>
workerVars == <<coroutine, found, returned, delivered>>
winVars == <<window, threads, events, completed>>
uiVars == <<workerVars, winVars>>

(***************************************************************************)
(* Bounds of the model.                                                    *)
(***************************************************************************)
MaxDevLen == 4      \* length of the device name after "/dev/"
MaxWords == 3       \* words concatenated into a transcript
MaxRows == 2        \* rows of an ATA attribute table
MaxNvmeKeys == 2    \* keys of an NVMe health-information block
MaxSize == 5        \* device size in bytes
MaxSamples == 3     \* sample_count
MantissaBits == 8   \* significant bits of a float

(***************************************************************************)
(* Python values.                                                          *)
(***************************************************************************)
PyNone == [kind |-> "none", b |-> FALSE, n |-> 0, s |-> <<>>,
           elems |-> <<>>, keys |-> <<>>, vals |-> <<>>]
PyBool(x) == [PyNone EXCEPT !.kind = "bool", !.b = x]
PyInt(x) == [PyNone EXCEPT !.kind = "int", !.n = x]
PyStr(cs) == [PyNone EXCEPT !.kind = "str", !.s = cs]
PyList(es) == [PyNone EXCEPT !.kind = "list", !.elems = es]
\* a dict keeps its keys in insertion order: keys[k] maps to vals[k]
PyDict(ks, vs) == [PyNone EXCEPT !.kind = "dict", !.keys = ks, !.vals = vs]
EmptyStr == PyStr(<<>>)
EmptyDict == PyDict(<<>>, <<>>)
EmptyList == PyList(<<>>)

\* the result of an expression: a value, or the exception it raised
Ok(v) == [exc |-> "", val |-> v]
Raise(e) == [exc |-> e, val |-> PyNone]

\* bool(v)
Truthy(v) ==
    CASE v.kind = "none" -> FALSE
      [] v.kind = "bool" -> v.b
      [] v.kind = "int" -> v.n # 0
      [] v.kind = "str" -> v.s # <<>>
      [] v.kind = "list" -> v.elems # <<>>
      [] v.kind = "dict" -> v.keys # <<>>

\* p in s, for two str
IsSubstr(p, s) ==
    \E j \in 0..(Len(s) - Len(p)) : SubSeq(s, j + 1, j + Len(p)) = p

UpperAlpha == <<"A","B","C","D","E","F","G","H","I","J","K","L","M",
                "N","O","P","Q","R","S","T","U","V","W","X","Y","Z">>
LowerAlpha == <<"a","b","c","d","e","f","g","h","i","j","k","l","m",
                "n","o","p","q","r","s","t","u","v","w","x","y","z">>
LowerChar(c) ==
    IF \E j \in 1..Len(UpperAlpha) : UpperAlpha[j] = c
    THEN LowerAlpha[CHOOSE j \in 1..Len(UpperAlpha) : UpperAlpha[j] = c]
    ELSE c
UpperChar(c) ==
    IF \E j \in 1..Len(LowerAlpha) : LowerAlpha[j] = c
    THEN UpperAlpha[CHOOSE j \in 1..Len(LowerAlpha) : LowerAlpha[j] = c]
    ELSE c
\* str.lower() and str.upper()
Lower(s) == [j \in 1..Len(s) |-> LowerChar(s[j])]
Upper(s) == [j \in 1..Len(s) |-> UpperChar(s[j])]

HasKey(d, k) == \E j \in 1..Len(d.keys) : d.keys[j] = k
Lookup(d, k) == d.vals[CHOOSE j \in 1..Len(d.keys) : d.keys[j] = k]

\* k in v, k a str
PyIn(k, v) ==
    CASE v.kind = "dict" -> Ok(HasKey(v, k))
      [] v.kind = "list" -> Ok(\E j \in 1..Len(v.elems) : v.elems[j] = PyStr(k))
      [] v.kind = "str" -> Ok(IsSubstr(k, v.s))
      [] OTHER -> Raise("TypeError")

\* v.get(k, default)
PyGet(v, k, default) ==
    IF v.kind = "dict"
    THEN Ok(IF HasKey(v, k) THEN Lookup(v, k) ELSE default)
    ELSE Raise("AttributeError")

\* v[k], k a str
PyIndex(v, k) ==
    IF v.kind = "dict"
    THEN IF HasKey(v, k) THEN Ok(Lookup(v, k)) ELSE Raise("KeyError")
    ELSE Raise("TypeError")

\* iter(v): the sequence a for loop walks
PyIter(v) ==
    CASE v.kind = "list" -> Ok(v.elems)
      [] v.kind = "dict" -> Ok([j \in 1..Len(v.keys) |-> PyStr(v.keys[j])])
      [] v.kind = "str" -> Ok([j \in 1..Len(v.s) |-> PyStr(<<v.s[j]>>)])
      [] OTHER -> Raise("TypeError")

(***************************************************************************)
(* String literals of smart.py.                                            *)
(***************************************************************************)
S_nvme == <<"n","v","m","e">>
S_PASSED == <<"P","A","S","S","E","D">>
S_OK == <<"O","K">>
S_FAILED == <<"F","A","I","L","E","D">>
S_dash == <<"-">>
K_nvme_log == <<"n","v","m","e","_","s","m","a","r","t","_","h","e","a","l","t","h","_",
                "i","n","f","o","r","m","a","t","i","o","n","_","l","o","g">>
K_ata_attrs == <<"a","t","a","_","s","m","a","r","t","_",
                 "a","t","t","r","i","b","u","t","e","s">>
K_smart_status == <<"s","m","a","r","t","_","s","t","a","t","u","s">>
K_passed == <<"p","a","s","s","e","d">>
K_table == <<"t","a","b","l","e">>
K_id == <<"i","d">>
K_name == <<"n","a","m","e">>
K_value == <<"v","a","l","u","e">>
K_worst == <<"w","o","r","s","t">>
K_thresh == <<"t","h","r","e","s","h">>
K_raw == <<"r","a","w">>

\* a result that is not a Python value (an enum member, a list of attributes)
RaiseAs(e, zero) == [exc |-> e, val |-> zero]

(***************************************************************************)
(* smart.py                                                                *)
(***************************************************************************)
\* mutants of _detect_disk_type: the path test without lower(), and the ATA
\* key tested before the NVMe key
_detect_disk_type_CaseSensitive(dev, json_data) ==
    IF IsSubstr(S_nvme, dev)
    THEN Ok("NVME")
    ELSE IF Truthy(json_data) /\ json_data.kind = "dict"
         THEN IF HasKey(json_data, K_nvme_log) THEN Ok("NVME")
              ELSE IF HasKey(json_data, K_ata_attrs) THEN Ok("SATA_ATA")
              ELSE Ok("UNKNOWN")
         ELSE Ok("UNKNOWN")
_detect_disk_type_AtaFirst(dev, json_data) ==
    IF IsSubstr(S_nvme, Lower(dev))
    THEN Ok("NVME")
    ELSE IF Truthy(json_data) /\ json_data.kind = "dict"
         THEN IF HasKey(json_data, K_ata_attrs) THEN Ok("SATA_ATA")
              ELSE IF HasKey(json_data, K_nvme_log) THEN Ok("NVME")
              ELSE Ok("UNKNOWN")
         ELSE Ok("UNKNOWN")

_detect_disk_type(dev, json_data) ==
    IF IsSubstr(S_nvme, Lower(dev))
    THEN Ok("NVME")
    ELSE IF Truthy(json_data)
         THEN LET hasNvme == PyIn(K_nvme_log, json_data)
                  hasAta == PyIn(K_ata_attrs, json_data)
              IN  IF hasNvme.exc # "" THEN RaiseAs(hasNvme.exc, "")
                  ELSE IF hasNvme.val THEN Ok("NVME")
                  ELSE IF hasAta.exc # "" THEN RaiseAs(hasAta.exc, "")
                  ELSE IF hasAta.val THEN Ok("SATA_ATA")
                  ELSE Ok("UNKNOWN")
         ELSE Ok("UNKNOWN")

\* row.get(k, "") of a row that is a dict
RowField(row, k) == PyGet(row, k, EmptyStr).val

SmartAttribute(id, name, value, worst, thresh, raw) ==
    [id |-> id, name |-> name, value |-> value,
     worst |-> worst, thresh |-> thresh, raw |-> raw]

\* mutant of _parse_ata_attributes: thresh read from the row's "worst"
_parse_ata_attributes_ThreshFromWorst(ata_table) ==
    LET rows == PyIter(ata_table)
    IN  IF rows.exc # "" THEN RaiseAs(rows.exc, <<>>)
        ELSE IF \E j \in 1..Len(rows.val) : rows.val[j].kind # "dict"
             THEN RaiseAs("AttributeError", <<>>)
             ELSE Ok([j \in 1..Len(rows.val) |->
                        SmartAttribute(RowField(rows.val[j], K_id),
                                       RowField(rows.val[j], K_name),
                                       RowField(rows.val[j], K_value),
                                       RowField(rows.val[j], K_worst),
                                       RowField(rows.val[j], K_worst),
                                       RowField(rows.val[j], K_raw))])

_parse_ata_attributes(ata_table) ==
    LET rows == PyIter(ata_table)
    IN  IF rows.exc # "" THEN RaiseAs(rows.exc, <<>>)
        ELSE IF \E j \in 1..Len(rows.val) : rows.val[j].kind # "dict"
             THEN RaiseAs("AttributeError", <<>>)
             ELSE Ok([j \in 1..Len(rows.val) |->
                        SmartAttribute(RowField(rows.val[j], K_id),
                                       RowField(rows.val[j], K_name),
                                       RowField(rows.val[j], K_value),
                                       RowField(rows.val[j], K_worst),
                                       RowField(rows.val[j], K_thresh),
                                       RowField(rows.val[j], K_raw))])

\* mutant of _parse_nvme_attributes: raw left empty like worst and thresh
_parse_nvme_attributes_RawEmpty(nvme_log) ==
    IF nvme_log.kind # "dict"
    THEN RaiseAs("AttributeError", <<>>)
    ELSE Ok([j \in 1..Len(nvme_log.keys) |->
               SmartAttribute(PyStr(S_dash), PyStr(nvme_log.keys[j]), nvme_log.vals[j],
                              EmptyStr, EmptyStr, EmptyStr)])

_parse_nvme_attributes(nvme_log) ==
    IF nvme_log.kind # "dict"
    THEN RaiseAs("AttributeError", <<>>)
    ELSE Ok([j \in 1..Len(nvme_log.keys) |->
               SmartAttribute(PyStr(S_dash), PyStr(nvme_log.keys[j]), nvme_log.vals[j],
                              EmptyStr, EmptyStr, nvme_log.vals[j])])

\* mutant of _determine_health_from_json: smart_status.get("passed") in place
\* of the membership test, so a status without the field reads as FAILED
_determine_health_from_json_NoFieldTest(json_data) ==
    LET smart_status == PyGet(json_data, K_smart_status, PyNone)
    IN  IF smart_status.exc # "" THEN RaiseAs(smart_status.exc, "")
        ELSE IF ~Truthy(smart_status.val) THEN Ok("UNKNOWN")
        ELSE LET passed == PyGet(smart_status.val, K_passed, PyNone)
             IN  IF passed.exc # "" THEN RaiseAs("TypeError", "")
                 ELSE Ok(IF Truthy(passed.val) THEN "PASSED" ELSE "FAILED")

_determine_health_from_json(json_data) ==
    LET smart_status == PyGet(json_data, K_smart_status, PyNone)
    IN  IF smart_status.exc # "" THEN RaiseAs(smart_status.exc, "")
        ELSE IF ~Truthy(smart_status.val) THEN Ok("UNKNOWN")
        ELSE LET has == PyIn(K_passed, smart_status.val)
                 passed == PyIndex(smart_status.val, K_passed)
             IN  IF has.exc # "" THEN RaiseAs(has.exc, "")
                 ELSE IF ~has.val THEN Ok("UNKNOWN")
                 ELSE IF passed.exc # "" THEN RaiseAs(passed.exc, "")
                 ELSE Ok(IF Truthy(passed.val) THEN "PASSED" ELSE "FAILED")

\* mutant of _determine_health_from_raw: FAILED tested before PASSED and OK
_determine_health_from_raw_FailedFirst(raw_data) ==
    IF ~Truthy(raw_data) THEN Ok("UNKNOWN")
    ELSE IF raw_data.kind # "str" THEN RaiseAs("AttributeError", "")
    ELSE LET raw_upper == Upper(raw_data.s)
         IN  IF IsSubstr(S_FAILED, raw_upper) THEN Ok("FAILED")
             ELSE IF IsSubstr(S_PASSED, raw_upper) \/ IsSubstr(S_OK, raw_upper)
             THEN Ok("PASSED")
             ELSE Ok("UNKNOWN")

_determine_health_from_raw(raw_data) ==
    IF ~Truthy(raw_data) THEN Ok("UNKNOWN")
    ELSE IF raw_data.kind # "str" THEN RaiseAs("AttributeError", "")
    ELSE LET raw_upper == Upper(raw_data.s)
         IN  IF IsSubstr(S_PASSED, raw_upper) \/ IsSubstr(S_OK, raw_upper)
             THEN Ok("PASSED")
             ELSE IF IsSubstr(S_FAILED, raw_upper) THEN Ok("FAILED")
             ELSE Ok("UNKNOWN")

\* SmartReport, or the exception synthesize_report ended in
SmartReport(dev, health, disk_type, attributes, raw, json_data) ==
    [outcome |-> "returned", device |-> dev, health |-> health,
     disk_type |-> disk_type, attributes |-> attributes,
     raw |-> raw, json_data |-> json_data]
Raised(e) ==
    [outcome |-> e, device |-> <<>>, health |-> "", disk_type |-> "",
     attributes |-> <<>>, raw |-> PyNone, json_data |-> PyNone]
NoReport == Raised("none")

\* mutant of the attribute step: an unrecognised document is flattened like
\* an NVMe block
ExtractAttributes_Guess(disk_type, json_data) ==
    IF ~Truthy(json_data) THEN Ok(<<>>)
    ELSE IF disk_type = "NVME"
         THEN LET nvme_log == PyGet(json_data, K_nvme_log, EmptyDict)
              IN  IF nvme_log.exc # "" THEN RaiseAs(nvme_log.exc, <<>>)
                  ELSE _parse_nvme_attributes(nvme_log.val)
    ELSE IF disk_type = "SATA_ATA"
         THEN LET ata == PyGet(json_data, K_ata_attrs, EmptyDict)
              IN  IF ata.exc # "" THEN RaiseAs(ata.exc, <<>>)
                  ELSE LET ata_table == PyGet(ata.val, K_table, EmptyList)
                       IN  IF ata_table.exc # "" THEN RaiseAs(ata_table.exc, <<>>)
                           ELSE _parse_ata_attributes(ata_table.val)
    ELSE _parse_nvme_attributes(json_data)

\* the attribute step of synthesize_report
ExtractAttributes(disk_type, json_data) ==
    IF ~Truthy(json_data) THEN Ok(<<>>)
    ELSE IF disk_type = "NVME"
         THEN LET nvme_log == PyGet(json_data, K_nvme_log, EmptyDict)
              IN  IF nvme_log.exc # "" THEN RaiseAs(nvme_log.exc, <<>>)
                  ELSE _parse_nvme_attributes(nvme_log.val)
    ELSE IF disk_type = "SATA_ATA"
         THEN LET ata == PyGet(json_data, K_ata_attrs, EmptyDict)
              IN  IF ata.exc # "" THEN RaiseAs(ata.exc, <<>>)
                  ELSE LET ata_table == PyGet(ata.val, K_table, EmptyList)
                       IN  IF ata_table.exc # "" THEN RaiseAs(ata_table.exc, <<>>)
                           ELSE _parse_ata_attributes(ata_table.val)
    ELSE Ok(<<>>)

\* mutant of the report: the lower-cased device name of the detection kept
synthesize_report_LowerDevice(dev, smart_payload) ==
    LET json_data == smart_payload.json
        raw_data == smart_payload.raw
        disk_type == _detect_disk_type(dev, json_data)
        health == IF Truthy(json_data)
                  THEN _determine_health_from_json(json_data)
                  ELSE _determine_health_from_raw(raw_data)
        attributes == ExtractAttributes(disk_type.val, json_data)
    IN  IF disk_type.exc # "" THEN Raised(disk_type.exc)
        ELSE IF health.exc # "" THEN Raised(health.exc)
        ELSE IF attributes.exc # "" THEN Raised(attributes.exc)
        ELSE SmartReport(Lower(dev), health.val, disk_type.val, attributes.val,
                         raw_data, json_data)

synthesize_report(dev, smart_payload) ==
    LET json_data == smart_payload.json
        raw_data == smart_payload.raw
        disk_type == _detect_disk_type(dev, json_data)
        health == IF Truthy(json_data)
                  THEN _determine_health_from_json(json_data)
                  ELSE _determine_health_from_raw(raw_data)
        attributes == ExtractAttributes(disk_type.val, json_data)
    IN  IF disk_type.exc # "" THEN Raised(disk_type.exc)
        ELSE IF health.exc # "" THEN Raised(health.exc)
        ELSE IF attributes.exc # "" THEN Raised(attributes.exc)
        ELSE SmartReport(dev, health.val, disk_type.val, attributes.val,
                         raw_data, json_data)

(***************************************************************************)
(* Inputs: device identifiers, transcripts and structured documents.       *)
(***************************************************************************)
\* every sequence over S of length at most n
SeqsUpTo(S, n) == UNION {[1..k -> S] : k \in 0..n}
\* the sequences of SeqsUpTo(S, n) without a repeated element
DistinctSeqsUpTo(S, n) ==
    {q \in SeqsUpTo(S, n) : \A j, k \in 1..Len(q) : j # k => q[j] # q[k]}

S_dev == <<"/","d","e","v","/">>
DevAlphabet == {"n","N","v","V","m","M","e","E"}
\* "/dev/" followed by every name over DevAlphabet
AllDevices == {S_dev \o name : name \in SeqsUpTo(DevAlphabet, MaxDevLen)}
SomeDevices == {S_dev \o <<"s","d","a">>,
                S_dev \o <<"n","v","m","e","0","n","1">>,
                S_dev \o <<"N","V","M","e","0">>}

\* transcripts: the words of smartctl's text output, concatenated
Words == {S_PASSED, <<"p","a","s","s","e","d">>, <<"P","A","S","S">>, <<"E","D">>,
          S_FAILED, <<"F","a","i","l","e","d">>, S_OK, <<"o">>, <<"k">>,
          <<"b","r","o","k","e","n">>, <<" ">>, <<"e","r","r","o","r">>}
RECURSIVE Concat(_)
Concat(ws) == IF ws = <<>> THEN <<>> ELSE Head(ws) \o Concat(Tail(ws))
AllTranscripts == {PyNone} \cup {PyStr(Concat(ws)) : ws \in SeqsUpTo(Words, MaxWords)}
SomeTranscripts == {PyNone, PyStr(S_PASSED), PyStr(S_FAILED)}

K_other == <<"o","t","h","e","r","_","f","i","e","l","d">>
S_value == <<"v","a","l","u","e">>
\* values of "smart_status": key-value trees, and other shapes
StatusValues == {PyDict(<<K_passed>>, <<PyBool(TRUE)>>),
                 PyDict(<<K_passed>>, <<PyBool(FALSE)>>),
                 PyDict(<<K_passed>>, <<PyNone>>),
                 PyDict(<<K_other, K_passed>>, <<PyStr(S_value), PyBool(TRUE)>>),
                 PyDict(<<K_other>>, <<PyStr(S_value)>>),
                 EmptyDict}
BadStatusValues == {PyNone, PyBool(TRUE), PyStr(K_passed),
                    PyList(<<PyStr(K_passed)>>), PyList(<<PyStr(S_value)>>)}

\* NVMe health-information blocks: each key of the pool with its value
NvmeKeyPool == {<<"c","r","i","t","i","c","a","l","_","w","a","r","n","i","n","g">>,
                <<"t","e","m","p","e","r","a","t","u","r","e">>,
                <<"a","v","a","i","l","a","b","l","e","_","s","p","a","r","e">>}
NvmeValue(k) ==
    CASE k = <<"c","r","i","t","i","c","a","l","_","w","a","r","n","i","n","g">> -> PyInt(0)
      [] k = <<"t","e","m","p","e","r","a","t","u","r","e">> -> PyInt(33)
      [] OTHER -> PyStr(<<"9","9","%">>)
NvmeBlocks == {PyDict(ks, [j \in 1..Len(ks) |-> NvmeValue(ks[j])]) :
                 ks \in DistinctSeqsUpTo(NvmeKeyPool, MaxNvmeKeys)}
BadNvmeBlocks == {PyNone, EmptyList, PyStr(<<"x">>)}

\* rows of an ATA attribute table: complete, partial, empty
FullRow == PyDict(<<K_id, K_name, K_value, K_worst, K_thresh, K_raw>>,
                  <<PyInt(5), PyStr(<<"R","S","C">>), PyInt(100), PyInt(99),
                    PyInt(10), PyInt(0)>>)
PartialRow == PyDict(<<K_name, K_id>>, <<PyStr(<<"T","e","s","t">>), PyInt(9)>>)
Rows == {FullRow, PartialRow, EmptyDict}
AtaValues == {EmptyDict} \cup
             {PyDict(<<K_table>>, <<PyList(rows)>>) : rows \in SeqsUpTo(Rows, MaxRows)}
BadAtaValues == {PyNone, EmptyList,
                 PyDict(<<K_table>>, <<PyNone>>),
                 PyDict(<<K_table>>, <<EmptyDict>>),
                 PyDict(<<K_table>>, <<PyStr(<<"a","b">>)>>),
                 PyDict(<<K_table>>, <<PyList(<<FullRow, PyInt(1)>>)>>)}

Absent == [PyNone EXCEPT !.kind = "absent"]
\* one entry of a document: nothing when the key is absent
Entry(k, v) == IF v = Absent THEN <<>> ELSE <<[k |-> k, v |-> v]>>
\* the document with the given entries, in this key order
Document(status, nvme, ata, other) ==
    LET es == Entry(K_smart_status, status) \o Entry(K_nvme_log, nvme)
              \o Entry(K_ata_attrs, ata) \o Entry(K_other, other)
    IN  PyDict([j \in 1..Len(es) |-> es[j].k], [j \in 1..Len(es) |-> es[j].v])
OneBlock == PyDict(<<<<"t","e","m","p","e","r","a","t","u","r","e">>>>, <<PyInt(33)>>)
OneTable == PyDict(<<K_table>>, <<PyList(<<FullRow>>)>>)
PassedStatus == PyDict(<<K_passed>>, <<PyBool(TRUE)>>)
\* documents whose inspected keys have the expected shape
WellFormedDocs ==
    {Document(st, nv, at, ot) :
        st \in {Absent} \cup StatusValues, nv \in {Absent} \cup NvmeBlocks,
        at \in {Absent} \cup AtaValues, ot \in {Absent, PyStr(S_value)}}
\* documents with one inspected key of another shape
MalformedDocs ==
    {Document(st, nv, at, Absent) :
        st \in BadStatusValues, nv \in {Absent, OneBlock}, at \in {Absent, OneTable}}
    \cup {Document(st, nv, at, Absent) :
        st \in {Absent, PassedStatus}, nv \in BadNvmeBlocks, at \in {Absent, OneTable}}
    \cup {Document(st, nv, at, Absent) :
        st \in {Absent, PassedStatus}, nv \in {Absent, OneBlock}, at \in BadAtaValues}
Docs == {PyNone} \cup WellFormedDocs \cup MalformedDocs
\* the documents family detection tells apart
FamilyDocs == {PyNone, EmptyDict,
               Document(Absent, OneBlock, Absent, Absent),
               Document(Absent, Absent, OneTable, Absent),
               Document(Absent, OneBlock, OneTable, Absent),
               Document(PassedStatus, Absent, Absent, PyStr(S_value))}

NoResult == RaiseAs("none", "")

SmartIdle ==
    /\ report = NoReport
    /\ detected = NoResult
    /\ verdict = NoResult
NoCall == [fn |-> "none"]
RunIdle ==
    /\ total_size = 0
    /\ sample_count = 0
    /\ block_size = 0
    /\ i = 0
    /\ seeks = <<>>
    /\ seek_time = [m |-> 0, e |-> 0]
    /\ read_speed = [m |-> 0, e |-> 0]
    /\ read_speeds = <<>>
    /\ access_times = <<>>
    /\ positions = <<>>
    /\ emitted = <<>>
    /\ finished = <<>>
    /\ outcome = "none"
    /\ error = ""
    /\ shown = <<>>
CallIdle ==
    /\ args = NoCall
    /\ result = NoCall
BenchIdle == RunIdle /\ CallIdle
NoCommand == [outcome |-> "none", returncode |-> 0, stdout |-> <<>>]
NoChild == [state |-> "none", returncode |-> 0, stdout |-> <<>>]
CmdIdle ==
    /\ cmd = "none"
    /\ process = "unbound"
    /\ child = NoChild
    /\ clock = 0
    /\ expired = FALSE
    /\ cmd_result = NoCommand

(***************************************************************************)
(* ui: what the main window displays, and the methods of its panels        *)
(*                                                                         *)
(* The window is one record; a method of a panel is an operator from the   *)
(* window before the call to the window after it.  A report handed to a    *)
(* handler is a SmartReport, or an exception (a record whose outcome names *)
(* the exception).                                                         *)
(***************************************************************************)
Headers7 == <<"ID", "Nom", "Valeur", "Worst", "Seuil", "Raw", "Indicateur">>
Headers4 == <<"Nom", "Valeur", "Raw", "Indicateur">>
S_no_raw == <<"Aucune donnee brute disponible">>

\* QMessageBox.critical / QMessageBox.warning: the window keeps the box shown
\* last
Box(icon, title, text) == [icon |-> icon, title |-> title, text |-> text]
NoBox == Box("none", "", "")

\* the window after SmartMonitor.__init__
InitialWindow ==
    [current_report |-> NoReport,
     tab |-> 0,
     health_label |-> [text |-> <<"Sante: ", "UNKNOWN">>, color |-> ""],
     table |-> [current_disk_type |-> "None", headers |-> Headers7, row_count |-> 0],
     raw_text |-> PyStr(<<>>),
     progress_visible |-> FALSE,
     progress_value |-> -1,
     box |-> NoBox]

\* DevicePanel.update_health_display
update_health_display(w, health) ==
    [w EXCEPT !.health_label =
        [text |-> <<"Sante: ", health>>,
         color |-> IF health = "PASSED" THEN "green"
                   ELSE IF health = "FAILED" THEN "red"
                   ELSE "orange"]]

\* mutant of the header choice: the seven columns for every family
_get_headers_for_disk_type_Seven(disk_type) == Headers7

\* SmartDataPanel._get_headers_for_disk_type
_get_headers_for_disk_type(disk_type) ==
    IF disk_type = "NVME" THEN Headers4
    ELSE IF disk_type = "SATA_ATA" THEN Headers7
    ELSE Headers7

\* SmartDataPanel.display_smart_report: _configure_table_for_disk_type,
\* _populate_table, _display_raw_data
display_smart_report(w, rep) ==
    [w EXCEPT !.table = [current_disk_type |-> rep.disk_type,
                         headers |-> _get_headers_for_disk_type(rep.disk_type),
                         row_count |-> Len(rep.attributes)],
              !.raw_text = IF Truthy(rep.raw) THEN rep.raw ELSE PyStr(S_no_raw)]

\* SmartMonitor._on_smart_check_finished
_on_smart_check_finished(w, rep) ==
    IF rep.outcome = "SmartctlNotFoundError"
    THEN [w EXCEPT !.box = Box("critical", "Smartctl introuvable", rep.outcome)]
    ELSE IF rep.outcome # "returned"
    THEN [w EXCEPT !.box = Box("critical", "Erreur lors de la verification SMART",
                               rep.outcome)]
    ELSE display_smart_report(
             update_health_display([w EXCEPT !.current_report = rep], rep.health),
             rep)

\* int(x) of a quotient
Trunc(q) == IF q.num >= 0 THEN q.num \div q.den ELSE -((-q.num) \div q.den)

\* BenchmarkPanel.show_progress, hide_progress, update_progress
show_progress(w) == [w EXCEPT !.progress_visible = TRUE, !.progress_value = 0]
hide_progress(w) == [w EXCEPT !.progress_visible = FALSE]
update_progress(w, percentage) == [w EXCEPT !.progress_value = Trunc(percentage)]

\* SmartMonitor._on_benchmark_progress, _on_benchmark_finished
_on_benchmark_progress(w, percentage) == update_progress(w, percentage)
_on_benchmark_finished(w) == hide_progress(w)

NoReturn == [outcome |-> "none", value |-> NoReport]
UiIdle ==
    /\ coroutine = "none"
    /\ found = FALSE
    /\ returned = NoReturn
    /\ delivered = <<>>
    /\ window = InitialWindow
    /\ threads = <<>>
    /\ events = <<>>
    /\ completed = <<>>

InitSynth ==
    /\ pc = "start"
    /\ UiIdle
    /\ device \in SomeDevices
    /\ payload \in [json : Docs, raw : SomeTranscripts]
    /\ SmartIdle
    /\ CmdIdle
    /\ BenchIdle
InitFamily ==
    /\ pc = "start"
    /\ UiIdle
    /\ device \in AllDevices
    /\ payload \in [json : FamilyDocs, raw : {PyNone}]
    /\ SmartIdle
    /\ CmdIdle
    /\ BenchIdle
InitRaw ==
    /\ pc = "start"
    /\ UiIdle
    /\ device \in {S_dev \o <<"s","d","a">>}
    /\ payload \in [json : {PyNone}, raw : AllTranscripts]
    /\ SmartIdle
    /\ CmdIdle
    /\ BenchIdle

\* synthesize_report(device, payload)
Synthesize ==
    /\ pc = "start"
    /\ report' = synthesize_report(device, payload)
    /\ pc' = "synthesized"
    /\ UNCHANGED <<device, payload, detected, verdict>>
    /\ UNCHANGED <<benchVars, cmdVars, uiVars>>
\* _detect_disk_type(device, payload["json"])
DetectDiskType ==
    /\ pc = "start"
    /\ detected' = _detect_disk_type(device, payload.json)
    /\ pc' = "detected"
    /\ UNCHANGED <<device, payload, report, verdict>>
    /\ UNCHANGED <<benchVars, cmdVars, uiVars>>
\* _determine_health_from_json(payload["json"]), of a document that is a dict
HealthFromJson ==
    /\ pc = "start"
    /\ payload.json.kind = "dict"
    /\ verdict' = _determine_health_from_json(payload.json)
    /\ pc' = "json_health"
    /\ UNCHANGED <<device, payload, report, detected>>
    /\ UNCHANGED <<benchVars, cmdVars, uiVars>>
\* _determine_health_from_raw(payload["raw"])
HealthFromRaw ==
    /\ pc = "start"
    /\ verdict' = _determine_health_from_raw(payload.raw)
    /\ pc' = "raw_health"
    /\ UNCHANGED <<device, payload, report, detected>>
    /\ UNCHANGED <<benchVars, cmdVars, uiVars>>

NextSynth == Synthesize \/ HealthFromJson
NextFamily == DetectDiskType
NextRaw == HealthFromRaw \/ Synthesize
SpecSynth == InitSynth /\ [][NextSynth]_vars
SpecFamily == InitFamily /\ [][NextFamily]_vars
SpecRaw == InitRaw /\ [][NextRaw]_vars

(***************************************************************************)
(* Python floats.                                                          *)
(*                                                                         *)
(* A float is m * 2^e with m an odd integer (or 0), and every operation    *)
(* returns the exact result rounded to MantissaBits significant bits, ties *)
(* to even, as IEEE 754 arithmetic does with 53 bits.  Exponents are not   *)
(* bounded: the measurements of a benchmark neither overflow nor           *)
(* underflow.                                                              *)
(***************************************************************************)
Fl(m, e) == [m |-> m, e |-> e]
FZero == Fl(0, 0)

RECURSIVE Pow2(_)
Pow2(k) == IF k <= 0 THEN 1 ELSE 2 * Pow2(k - 1)

MinOf(a, b) == IF a <= b THEN a ELSE b
Abs(n) == IF n < 0 THEN -n ELSE n

\* the one representation of m * 2^e
RECURSIVE Norm(_, _)
Norm(m, e) ==
    IF m = 0 THEN FZero
    ELSE IF m % 2 = 0 THEN Norm(m \div 2, e + 1)
    ELSE Fl(m, e)

\* (a / b) * 2^e rounded to MantissaBits bits, for a > 0 and b > 0
RECURSIVE RoundPos(_, _, _)
RoundPos(a, b, e) ==
    IF a < b * Pow2(MantissaBits) THEN RoundPos(2 * a, b, e - 1)
    ELSE IF a >= b * Pow2(MantissaBits + 1) THEN RoundPos(a, 2 * b, e + 1)
    ELSE LET q == a \div b
             r == a % b
             h == q \div 2
             up == q % 2 = 1 /\ (r > 0 \/ h % 2 = 1)
         IN  Norm(IF up THEN h + 1 ELSE h, e + 1)

\* the same with the powers of two of b moved into the exponent
RECURSIVE RoundOdd(_, _, _)
RoundOdd(a, b, e) ==
    IF b % 2 = 0 THEN RoundOdd(a, b \div 2, e - 1) ELSE RoundPos(a, b, e)

\* (n / b) * 2^e rounded, for any integer n and b > 0
Round(n, b, e) ==
    IF n = 0 THEN FZero
    ELSE IF n > 0 THEN RoundOdd(n, b, e)
    ELSE LET r == RoundOdd(-n, b, e) IN Fl(-r.m, r.e)

FromInt(n) == Round(n, 1, 0)
FNeg(x) == Fl(-x.m, x.e)
FAdd(x, y) ==
    LET e == MinOf(x.e, y.e)
    IN  Round(x.m * Pow2(x.e - e) + y.m * Pow2(y.e - e), 1, e)
FSub(x, y) == FAdd(x, FNeg(y))
FMul(x, y) == Round(x.m * y.m, 1, x.e + y.e)
\* x / y for y # 0
FDiv(x, y) ==
    Round(IF y.m < 0 THEN -x.m ELSE x.m, Abs(y.m), x.e - y.e)
\* n / d of two ints, d # 0: the quotient correctly rounded
IntDiv(n, d) == Round(IF d < 0 THEN -n ELSE n, Abs(d), 0)

FLess(x, y) ==
    LET e == MinOf(x.e, y.e)
    IN  x.m * Pow2(x.e - e) < y.m * Pow2(y.e - e)
FLeq(x, y) == ~FLess(y, x)

(***************************************************************************)
(* benchmark.py: the functions of the module                               *)
(***************************************************************************)
\* a float that is a quotient, kept exact: num / den with den > 0
Quot(num, den) == [num |-> num, den |-> den]
Less(a, b) == a.num * b.den < b.num * a.den

\* x / y of two floats
TrueDiv(x, y) ==
    IF y.m = 0 THEN RaiseAs("ZeroDivisionError", FZero) ELSE Ok(FDiv(x, y))

\* mutant of the guard: only a negative elapsed time gives 0.0
_calculate_read_speed_StrictGuard(data_size, elapsed_time) ==
    IF FLess(elapsed_time, FZero) THEN Ok(FZero)
    ELSE TrueDiv(IntDiv(data_size, 1024 * 1024), elapsed_time)

_calculate_read_speed(data_size, elapsed_time) ==
    IF FLeq(elapsed_time, FZero) THEN Ok(FZero)
    ELSE TrueDiv(IntDiv(data_size, 1024 * 1024), elapsed_time)

\* mutant of the percentage: clamped to 100
_calculate_position_percentage_Clamped(position, total) ==
    IF total <= 0 THEN Quot(0, 1)
    ELSE IF position > total THEN Quot(100, 1)
    ELSE Quot(position * 100, total)

_calculate_position_percentage(position, total) ==
    IF total <= 0 THEN Quot(0, 1) ELSE Quot(position * 100, total)

\* _measure_seek_time with the two readings of time.time()
_measure_seek_time(start_time, end_time) ==
    FMul(FSub(end_time, start_time), FromInt(1000))

\* _measure_read_speed with the length of the data read and the two readings
\* of time.time()
_measure_read_speed(data_len, start_time, end_time) ==
    IF data_len = 0 THEN Ok(FZero)
    ELSE _calculate_read_speed(data_len, FSub(end_time, start_time))

\* numpy's sum of the first k elements of a short list: accumulated from
\* left to right, each addition rounded
RECURSIVE np_sum(_, _)
np_sum(s, k) == IF k = 0 THEN FZero ELSE FAdd(np_sum(s, k - 1), s[k])

np_mean(s) == FDiv(np_sum(s, Len(s)), FromInt(Len(s)))

\* mutant of the minimum: the first element
np_min_First(s) == s[1]

RECURSIVE np_min(_)
np_min(s) ==
    IF Len(s) = 1 THEN s[1]
    ELSE LET r == np_min(Tail(s)) IN IF FLess(r, s[1]) THEN r ELSE s[1]

RECURSIVE np_max(_)
np_max(s) ==
    IF Len(s) = 1 THEN s[1]
    ELSE LET r == np_max(Tail(s)) IN IF FLess(s[1], r) THEN r ELSE s[1]

BenchmarkResults(speeds, times, places, avg_s, min_s, max_s, avg_t, min_t, max_t) ==
    [read_speeds |-> speeds, access_times |-> times, positions |-> places,
     avg_read_speed |-> avg_s, min_read_speed |-> min_s, max_read_speed |-> max_s,
     avg_access_time |-> avg_t, min_access_time |-> min_t, max_access_time |-> max_t]

\* what numpy gives for the mean of an empty list
NaN == [m |-> 0, e |-> 1]

\* mutant of the aggregation: no test for an empty read_speeds
compute_benchmark_stats_NoGuard(speeds, times, places) ==
    BenchmarkResults(speeds, times, places,
        IF speeds # <<>> THEN np_mean(speeds) ELSE NaN,
        IF speeds # <<>> THEN np_min(speeds) ELSE NaN,
        IF speeds # <<>> THEN np_max(speeds) ELSE NaN,
        IF times # <<>> THEN np_mean(times) ELSE FZero,
        IF times # <<>> THEN np_min(times) ELSE FZero,
        IF times # <<>> THEN np_max(times) ELSE FZero)

compute_benchmark_stats(speeds, times, places) ==
    IF speeds = <<>>
    THEN BenchmarkResults(<<>>, <<>>, <<>>, FZero, FZero, FZero, FZero, FZero, FZero)
    ELSE BenchmarkResults(speeds, times, places,
             np_mean(speeds), np_min(speeds), np_max(speeds),
             IF times # <<>> THEN np_mean(times) ELSE FZero,
             IF times # <<>> THEN np_min(times) ELSE FZero,
             IF times # <<>> THEN np_max(times) ELSE FZero)

\* mutant of the loop bound: one sample short
InRange_OneShort(index, count) == index < count - 1

\* index in range(count)
InRange(index, count) == index < count

(***************************************************************************)
(* benchmark.py: BenchmarkWorker.run                                       *)
(*                                                                         *)
(* One step per statement of run that touches the device, reads the clock  *)
(* or emits a signal.  time.time() is the wall clock: two successive       *)
(* readings are any two values of ClockReadings, in either order.          *)
(***************************************************************************)
\* exceptions that run catches: PermissionError and two more subclasses of
\* OSError, OSError itself, and RuntimeError
RunErrors == {"PermissionError", "FileNotFoundError", "OSError", "RuntimeError"}

\* mutant of the except clauses: (OSError, RuntimeError) tested first
ErrorPath_OSErrorFirst(e) == "generic_error"

\* the except clause of run that catches e
ErrorPath(e) == IF e = "PermissionError" THEN "permission_error" ELSE "generic_error"

\* mutant of the offset computation: the offset of the next sample
SeekPos_NextIndex(index, total, count) == ((index + 1) * total) \div count

\* mutant of the offset computation: the samples walked from the end
SeekPos_FromEnd(index, total, count) == ((count - 1 - index) * total) \div count

\* seek_pos of sample index
SeekPos(index, total, count) == (index * total) \div count

\* values of time.time(), in seconds
ClockReadings == {Fl(1, 0), Fl(3, 0)}
\* values of block_size: one byte, and the default of the constructor
BlockSizes == {1, 4 * 1024 * 1024}

\* len(file_obj.read(block_size)) at offset position of a device of total bytes
ReadLen(position, total, block) == MinOf(block, total - position)

InitBench ==
    /\ pc = "run"
    /\ UiIdle
    /\ device = S_dev \o <<"s","d","a">>
    /\ payload = [json |-> PyNone, raw |-> PyNone]
    /\ SmartIdle
    /\ CmdIdle
    /\ CallIdle
    /\ total_size = 0
    /\ sample_count \in 0..MaxSamples
    /\ block_size \in BlockSizes
    /\ i = 0
    /\ seeks = <<>>
    /\ seek_time = FZero
    /\ read_speed = FZero
    /\ read_speeds = <<>>
    /\ access_times = <<>>
    /\ positions = <<>>
    /\ emitted = <<>>
    /\ finished = <<>>
    /\ outcome = "none"
    /\ error = ""
    /\ shown = <<>>

\* Path(self.device).open("rb") succeeds
Open ==
    /\ pc = "run"
    /\ pc' = "size"
    /\ UNCHANGED benchVars
    /\ UNCHANGED <<smartVars, cmdVars, uiVars>>
\* _get_file_size: the size of the device, any size up to MaxSize
GetFileSize ==
    /\ pc = "size"
    /\ \E size \in 0..MaxSize : total_size' = size
    /\ pc' = "loop"
    /\ UNCHANGED <<sample_count, block_size, i, seeks, seek_time, read_speed,
                   read_speeds, access_times, positions, emitted, finished, outcome>>
    /\ UNCHANGED <<callVars, errVars>>
    /\ UNCHANGED <<smartVars, cmdVars, uiVars>>
\* for i in range(self.sample_count)
LoopHead ==
    /\ pc = "loop"
    /\ pc' = IF InRange(i, sample_count) THEN "seek" ELSE "stats"
    /\ UNCHANGED benchVars
    /\ UNCHANGED <<smartVars, cmdVars, uiVars>>
\* seek_time = self._measure_seek_time(f, seek_pos)
MeasureSeekTime ==
    /\ pc = "seek"
    /\ seeks' = Append(seeks, SeekPos(i, total_size, sample_count))
    /\ \E start_time \in ClockReadings, end_time \in ClockReadings :
          seek_time' = _measure_seek_time(start_time, end_time)
    /\ pc' = "read"
    /\ UNCHANGED <<total_size, sample_count, block_size, i, read_speed,
                   read_speeds, access_times, positions, emitted, finished, outcome>>
    /\ UNCHANGED <<callVars, errVars>>
    /\ UNCHANGED <<smartVars, cmdVars, uiVars>>
\* read_speed = self._measure_read_speed(f); an exception that run does not
\* catch ends the thread
MeasureReadSpeed ==
    /\ pc = "read"
    /\ \E start_time \in ClockReadings, end_time \in ClockReadings :
          LET data_len == ReadLen(seeks[Len(seeks)], total_size, block_size)
              measured == _measure_read_speed(data_len, start_time, end_time)
          IN  IF measured.exc = ""
              THEN /\ read_speed' = measured.val
                   /\ pc' = "emit"
                   /\ outcome' = outcome
              ELSE /\ read_speed' = read_speed
                   /\ pc' = "done"
                   /\ outcome' = measured.exc
    /\ UNCHANGED <<total_size, sample_count, block_size, i, seeks, seek_time,
                   read_speeds, access_times, positions, emitted, finished>>
    /\ UNCHANGED <<callVars, errVars>>
    /\ UNCHANGED <<smartVars, cmdVars, uiVars>>
\* the percentage of the sample, the three appends and progress.emit
EmitProgress ==
    /\ pc = "emit"
    /\ LET percentage == _calculate_position_percentage(
                             SeekPos(i, total_size, sample_count), total_size)
       IN  /\ read_speeds' = Append(read_speeds, read_speed)
           /\ access_times' = Append(access_times, seek_time)
           /\ positions' = Append(positions, percentage)
           /\ emitted' = Append(emitted, [percentage |-> percentage,
                                          read_speed |-> read_speed,
                                          access_time |-> seek_time])
    /\ i' = i + 1
    /\ pc' = "loop"
    /\ UNCHANGED <<total_size, sample_count, block_size, seeks, seek_time,
                   read_speed, finished, outcome>>
    /\ UNCHANGED <<callVars, errVars>>
    /\ UNCHANGED <<smartVars, cmdVars, uiVars>>
\* results = compute_benchmark_stats(...) and self.finished.emit(results)
Finish ==
    /\ pc = "stats"
    /\ finished' = Append(finished,
                       compute_benchmark_stats(read_speeds, access_times, positions))
    /\ outcome' = "finished"
    /\ pc' = "done"
    /\ UNCHANGED <<total_size, sample_count, block_size, i, seeks, seek_time,
                   read_speed, read_speeds, access_times, positions, emitted>>
    /\ UNCHANGED <<callVars, errVars>>
    /\ UNCHANGED <<smartVars, cmdVars, uiVars>>
\* mutant of the error path: the samples taken so far are aggregated and sent
IOError_PartialResults ==
    /\ pc \in {"run", "size", "seek", "read"}
    /\ \E e \in RunErrors :
          /\ error' = e
          /\ outcome' = ErrorPath(e)
          /\ shown' = Append(shown, ErrorPath(e))
    /\ finished' = Append(finished,
                       compute_benchmark_stats(read_speeds, access_times, positions))
    /\ pc' = "done"
    /\ UNCHANGED <<total_size, sample_count, block_size, i, seeks, seek_time,
                   read_speed, read_speeds, access_times, positions, emitted>>
    /\ UNCHANGED callVars
    /\ UNCHANGED <<smartVars, cmdVars, uiVars>>
\* open, seek, tell or read raises: run shows the error and ends
IOError ==
    /\ pc \in {"run", "size", "seek", "read"}
    /\ \E e \in RunErrors :
          /\ error' = e
          /\ outcome' = ErrorPath(e)
          /\ shown' = Append(shown, ErrorPath(e))
    /\ pc' = "done"
    /\ UNCHANGED <<total_size, sample_count, block_size, i, seeks, seek_time,
                   read_speed, read_speeds, access_times, positions, emitted, finished>>
    /\ UNCHANGED callVars
    /\ UNCHANGED <<smartVars, cmdVars, uiVars>>

NextBench ==
    \/ Open
    \/ GetFileSize
    \/ LoopHead
    \/ MeasureSeekTime
    \/ MeasureReadSpeed
    \/ EmitProgress
    \/ Finish
    \/ IOError
SpecBench == InitBench /\ [][NextBench]_vars

(***************************************************************************)
(* benchmark.py: direct calls of the functions of the module, as the       *)
(* tests of tests/test_benchmark.py make them.                             *)
(***************************************************************************)
MaxSeries == 3      \* length of a series handed to compute_benchmark_stats
MaxPosition == 4    \* position handed to _calculate_position_percentage
MaxData == 3        \* data_size handed to _calculate_read_speed

\* 178.0, 174.0 and 1.0
StatValues == {Fl(89, 1), Fl(87, 1), Fl(1, 0)}
\* the positions of a run of n samples over a device of at least n bytes
PositionsOf(n) == [k \in 1..n |-> Quot((k - 1) * 100, n)]
StatsArgs ==
    [fn : {"compute_benchmark_stats"},
     read_speeds : SeqsUpTo(StatValues, MaxSeries),
     access_times : SeqsUpTo(StatValues, MaxSeries),
     positions : {PositionsOf(n) : n \in 0..MaxSeries}]

\* positions and sizes: small ones and those of test_benchmark.py
PositionArgs ==
    [fn : {"_calculate_position_percentage"},
     position : (0..MaxPosition) \cup {250, 750, 1000, 1500},
     total_size : (-1..MaxPosition) \cup {1000, -1000}]

\* -2.0, 0.0, 0.5, 1.0 and 2.0 seconds
ElapsedTimes == {Fl(-1, 1), FZero, Fl(1, -1), Fl(1, 0), Fl(1, 1)}
SpeedArgs ==
    [fn : {"_calculate_read_speed"},
     data_size : (0..MaxData) \cup {1024 * 1024, 4 * 1024 * 1024},
     elapsed_time : ElapsedTimes]
MeasureArgs ==
    [fn : {"_measure_read_speed"},
     data_len : (0..MaxData) \cup {1024 * 1024},
     start_time : ClockReadings,
     end_time : ClockReadings]

InitCall ==
    /\ pc = "call"
    /\ UiIdle
    /\ device = S_dev \o <<"s","d","a">>
    /\ payload = [json |-> PyNone, raw |-> PyNone]
    /\ SmartIdle
    /\ CmdIdle
    /\ RunIdle
    /\ args \in StatsArgs \cup PositionArgs \cup SpeedArgs \cup MeasureArgs
    /\ result = NoCall

\* compute_benchmark_stats(read_speeds, access_times, positions)
ComputeBenchmarkStats ==
    /\ pc = "call"
    /\ args.fn = "compute_benchmark_stats"
    /\ result' = compute_benchmark_stats(args.read_speeds, args.access_times, args.positions)
    /\ pc' = "returned"
    /\ UNCHANGED <<args, runVars, smartVars, cmdVars, uiVars>>
\* _calculate_position_percentage(position, total_size)
CalculatePositionPercentage ==
    /\ pc = "call"
    /\ args.fn = "_calculate_position_percentage"
    /\ result' = _calculate_position_percentage(args.position, args.total_size)
    /\ pc' = "returned"
    /\ UNCHANGED <<args, runVars, smartVars, cmdVars, uiVars>>
\* _calculate_read_speed(data_size, elapsed_time)
CalculateReadSpeed ==
    /\ pc = "call"
    /\ args.fn = "_calculate_read_speed"
    /\ result' = _calculate_read_speed(args.data_size, args.elapsed_time)
    /\ pc' = "returned"
    /\ UNCHANGED <<args, runVars, smartVars, cmdVars, uiVars>>
\* _measure_read_speed(f) where the read returns data_len bytes between the
\* two readings of the clock
CallMeasureReadSpeed ==
    /\ pc = "call"
    /\ args.fn = "_measure_read_speed"
    /\ result' = _measure_read_speed(args.data_len, args.start_time, args.end_time)
    /\ pc' = "returned"
    /\ UNCHANGED <<args, runVars, smartVars, cmdVars, uiVars>>

NextCall ==
    \/ ComputeBenchmarkStats
    \/ CalculatePositionPercentage
    \/ CalculateReadSpeed
    \/ CallMeasureReadSpeed
SpecCall == InitCall /\ [][NextCall]_vars

(***************************************************************************)
(* utils.py: run_cmd                                                       *)
(*                                                                         *)
(* One step per point where the coroutine can be suspended or resumed.     *)
(* The child is forked inside create_subprocess_exec before its first      *)
(* suspension; asyncio.timeout cancels the coroutine at the suspension it  *)
(* is in when the clock reaches the deadline.                              *)
(***************************************************************************)
\* asyncio.timeout(15)
Timeout == 15
ReturnCodes == {0, 1, 2}
\* texts the child writes to its standard output
T_blank == <<" ">>
T_failed == <<"S","M","A","R","T"," ","c","o","m","m","a","n","d"," ","f","a","i","l","e","d">>
T_passed_tree == <<"{","\"","s","m","a","r","t","_","s","t","a","t","u","s","\"",":",
                   "{","\"","p","a","s","s","e","d","\"",":","t","r","u","e","}","}">>
T_failed_tree == <<"{","\"","s","m","a","r","t","_","s","t","a","t","u","s","\"",":",
                   "{","\"","p","a","s","s","e","d","\"",":","f","a","l","s","e","}","}">>
T_nvme_tree == <<"{","\"","n","v","m","e","_","s","m","a","r","t","_","h","e","a","l","t","h","_",
                 "i","n","f","o","r","m","a","t","i","o","n","_","l","o","g","\"",":",
                 "{","\"","t","e","m","p","e","r","a","t","u","r","e","\"",":","3","3","}","}">>
T_empty_tree == <<"{","}">>
T_null == <<"n","u","l","l">>
T_list == <<"[","1","]">>
T_number == <<"7">>
Outputs == {<<>>, T_blank, S_PASSED, T_failed, T_passed_tree, T_failed_tree,
            T_nvme_tree, T_empty_tree, T_null, T_list, T_number}
Commands == {"present", "missing"}

ChildIn(state, returncode, stdout) ==
    [state |-> state, returncode |-> returncode, stdout |-> stdout]
CommandResult(how, returncode, stdout) ==
    [outcome |-> how, returncode |-> returncode, stdout |-> stdout]

InitCmd ==
    /\ pc = "run_cmd"
    /\ UiIdle
    /\ device = S_dev \o <<"s","d","a">>
    /\ payload = [json |-> PyNone, raw |-> PyNone]
    /\ SmartIdle
    /\ BenchIdle
    /\ cmd \in Commands
    /\ process = "unbound"
    /\ child = NoChild
    /\ clock = 0
    /\ expired = FALSE
    /\ cmd_result = NoCommand

\* asyncio.create_subprocess_exec up to its first suspension: the executable
\* is missing, or the child is forked, which takes some time
CreateSubprocess ==
    /\ pc = "run_cmd"
    /\ IF cmd = "missing"
       THEN /\ cmd_result' = CommandResult("FileNotFoundError", 0, <<>>)
            /\ pc' = "cmd_done"
            /\ UNCHANGED <<child, clock>>
       ELSE /\ child' = ChildIn("running", 0, <<>>)
            /\ \E spent \in 0..Timeout : clock' = spent
            /\ pc' = "creating"
            /\ UNCHANGED cmd_result
    /\ UNCHANGED <<cmd, process, expired>>
    /\ UNCHANGED <<smartVars, benchVars, uiVars>>
\* time passes while the coroutine is suspended
Tick ==
    /\ pc \in {"creating", "communicating"}
    /\ clock < Timeout
    /\ clock' = clock + 1
    /\ UNCHANGED <<pc, cmd, process, child, expired, cmd_result>>
    /\ UNCHANGED <<smartVars, benchVars, uiVars>>
\* the child ends by itself
ChildExits ==
    /\ pc \in {"creating", "communicating"}
    /\ child.state = "running"
    /\ \E returncode \in ReturnCodes, stdout \in Outputs :
          child' = ChildIn("exited", returncode, stdout)
    /\ UNCHANGED <<pc, cmd, process, clock, expired, cmd_result>>
    /\ UNCHANGED <<smartVars, benchVars, uiVars>>
\* process = await asyncio.create_subprocess_exec(...)
SubprocessCreated ==
    /\ pc = "creating"
    /\ clock < Timeout
    /\ process' = "bound"
    /\ pc' = "communicating"
    /\ UNCHANGED <<cmd, child, clock, expired, cmd_result>>
    /\ UNCHANGED <<smartVars, benchVars, uiVars>>
\* stdout, stderr = await process.communicate() and the return of the result
CommunicateReturns ==
    /\ pc = "communicating"
    /\ clock < Timeout
    /\ child.state = "exited"
    /\ child' = [child EXCEPT !.state = "reaped"]
    /\ cmd_result' = CommandResult("returned", child.returncode, child.stdout)
    /\ pc' = "cmd_done"
    /\ UNCHANGED <<cmd, process, clock, expired>>
    /\ UNCHANGED <<smartVars, benchVars, uiVars>>
\* the deadline of asyncio.timeout is reached: the suspended await is
\* cancelled (a cancelled create_subprocess_exec closes its transport, which
\* kills and reaps the child) and TimeoutError reaches the except clause
TimeoutExpires ==
    /\ pc \in {"creating", "communicating"}
    /\ clock = Timeout
    /\ expired' = TRUE
    /\ child' = IF pc = "creating" THEN [child EXCEPT !.state = "reaped"] ELSE child
    /\ pc' = "except"
    /\ UNCHANGED <<cmd, process, clock, cmd_result>>
    /\ UNCHANGED <<smartVars, benchVars, uiVars>>
\* except TimeoutError: process.kill()
KillProcess ==
    /\ pc = "except"
    /\ IF process = "unbound"
       THEN /\ cmd_result' = CommandResult("UnboundLocalError", 0, <<>>)
            /\ pc' = "cmd_done"
            /\ UNCHANGED child
       ELSE /\ child' = IF child.state = "running"
                        THEN [child EXCEPT !.state = "killed"] ELSE child
            /\ pc' = "reap"
            /\ UNCHANGED cmd_result
    /\ UNCHANGED <<cmd, process, clock, expired>>
    /\ UNCHANGED <<smartVars, benchVars, uiVars>>
\* await process.communicate() and raise
ReapAndRaise ==
    /\ pc = "reap"
    /\ child' = [child EXCEPT !.state = "reaped"]
    /\ cmd_result' = CommandResult("TimeoutError", 0, <<>>)
    /\ pc' = "cmd_done"
    /\ UNCHANGED <<cmd, process, clock, expired>>
    /\ UNCHANGED <<smartVars, benchVars, uiVars>>

NextCmd ==
    \/ CreateSubprocess
    \/ Tick
    \/ ChildExits
    \/ SubprocessCreated
    \/ CommunicateReturns
    \/ TimeoutExpires
    \/ KillProcess
    \/ ReapAndRaise
SpecCmd == InitCmd /\ [][NextCmd]_vars

(***************************************************************************)
(* workers.py: AsyncWorker.run, awaiting run_smart_check (smart.py) or     *)
(* another coroutine, and the handler run_check connects to finished       *)
(***************************************************************************)
\* str.strip()
IsSpace(c) == c \in {" ", "\t", "\n", "\r"}
RECURSIVE LStrip(_)
RECURSIVE RStrip(_)
LStrip(s) == IF s # <<>> /\ IsSpace(Head(s)) THEN LStrip(Tail(s)) ELSE s
RStrip(s) ==
    IF s # <<>> /\ IsSpace(s[Len(s)]) THEN RStrip(SubSeq(s, 1, Len(s) - 1)) ELSE s
Strip(s) == RStrip(LStrip(s))

\* json.loads, on the texts of Outputs
json_loads(text) ==
    CASE text = T_passed_tree -> Ok(PyDict(<<K_smart_status>>,
                                           <<PyDict(<<K_passed>>, <<PyBool(TRUE)>>)>>))
      [] text = T_failed_tree -> Ok(PyDict(<<K_smart_status>>,
                                           <<PyDict(<<K_passed>>, <<PyBool(FALSE)>>)>>))
      [] text = T_nvme_tree -> Ok(Document(Absent, OneBlock, Absent, Absent))
      [] text = T_empty_tree -> Ok(EmptyDict)
      [] text = T_null -> Ok(PyNone)
      [] text = T_list -> Ok(PyList(<<PyInt(1)>>))
      [] text = T_number -> Ok(PyInt(7))
      [] OTHER -> Raise("JSONDecodeError")

\* query_smart_json after run_cmd has returned out
query_smart_json(out) ==
    IF out.returncode = 0 /\ Strip(out.stdout) # <<>>
    THEN LET parsed == json_loads(out.stdout)
         IN  IF parsed.exc \in {"JSONDecodeError", "TypeError", "ValueError"}
             THEN [raw |-> PyStr(out.stdout), json |-> PyNone]
             ELSE [raw |-> PyStr(out.stdout), json |-> parsed.val]
    ELSE [raw |-> PyStr(out.stdout), json |-> PyNone]

\* what the worker awaits: run_smart_check(device), a coroutine that returns
\* None, or a coroutine that raises
Coroutines == {"run_smart_check", "returns_none", "raises"}
ReturnOf(value) == [outcome |-> "returned", value |-> value]
Propagated(e) == [outcome |-> e, value |-> NoReport]

InitCheck ==
    /\ pc = "asyncio_run"
    /\ coroutine \in Coroutines
    /\ found = FALSE
    /\ returned = NoReturn
    /\ delivered = <<>>
    /\ window = InitialWindow
    /\ threads = <<>>
    /\ events = <<>>
    /\ completed = <<>>
    /\ device \in {S_dev \o <<"s","d","a">>, S_dev \o <<"n","v","m","e","0","n","1">>}
    /\ payload = [json |-> PyNone, raw |-> PyNone]
    /\ SmartIdle
    /\ BenchIdle
    /\ cmd \in Commands
    /\ process = "unbound"
    /\ child = NoChild
    /\ clock = 0
    /\ expired = FALSE
    /\ cmd_result = NoCommand

\* asyncio.run of a coroutine other than run_smart_check
AwaitOther ==
    /\ pc = "asyncio_run"
    /\ coroutine \in {"returns_none", "raises"}
    /\ returned' = IF coroutine = "returns_none" THEN ReturnOf(PyNone)
                   ELSE Propagated("RuntimeError")
    /\ pc' = "ran"
    /\ UNCHANGED <<coroutine, found, delivered, winVars>>
    /\ UNCHANGED <<smartVars, benchVars, cmdVars>>
\* query_smart_json: if not has_smartctl(): raise SmartctlNotFoundError
HasSmartctl ==
    /\ pc = "asyncio_run"
    /\ coroutine = "run_smart_check"
    /\ \E which \in BOOLEAN :
          /\ found' = which
          /\ IF which
             THEN /\ pc' = "run_cmd"
                  /\ UNCHANGED returned
             ELSE /\ returned' = Propagated("SmartctlNotFoundError")
                  /\ pc' = "ran"
    /\ UNCHANGED <<coroutine, delivered, winVars>>
    /\ UNCHANGED <<smartVars, benchVars, cmdVars>>
\* query_smart_json once run_cmd has ended: its exception goes on, its result
\* becomes the payload
QuerySmartJson ==
    /\ pc = "cmd_done"
    /\ coroutine = "run_smart_check"
    /\ IF cmd_result.outcome = "returned"
       THEN /\ payload' = query_smart_json(cmd_result)
            /\ pc' = "synthesize"
            /\ UNCHANGED returned
       ELSE /\ returned' = Propagated(cmd_result.outcome)
            /\ pc' = "ran"
            /\ UNCHANGED payload
    /\ UNCHANGED <<device, report, detected, verdict>>
    /\ UNCHANGED <<coroutine, found, delivered, winVars>>
    /\ UNCHANGED <<benchVars, cmdVars>>
\* run_smart_check: return synthesize_report(device, smart_payload)
SynthesizeReport ==
    /\ pc = "synthesize"
    /\ report' = synthesize_report(device, payload)
    /\ returned' = IF report'.outcome = "returned" THEN ReturnOf(report')
                   ELSE Propagated(report'.outcome)
    /\ pc' = "ran"
    /\ UNCHANGED <<device, payload, detected, verdict>>
    /\ UNCHANGED <<coroutine, found, delivered, winVars>>
    /\ UNCHANGED <<benchVars, cmdVars>>
\* AsyncWorker.run: self.finished.emit(result)
EmitFinished ==
    /\ pc = "ran"
    /\ returned.outcome = "returned"
    /\ delivered' = Append(delivered, returned.value)
    /\ pc' = "emitted"
    /\ UNCHANGED <<coroutine, found, returned, winVars>>
    /\ UNCHANGED <<smartVars, benchVars, cmdVars>>
\* mutant of the propagation: run catches the exception and emits it
Propagate_EmitsException ==
    /\ pc = "ran"
    /\ returned.outcome # "returned"
    /\ delivered' = Append(delivered, Raised(returned.outcome))
    /\ pc' = "emitted"
    /\ UNCHANGED <<coroutine, found, returned, winVars>>
    /\ UNCHANGED <<smartVars, benchVars, cmdVars>>
\* AsyncWorker.run: the exception of asyncio.run leaves run, which has no try
Propagate ==
    /\ pc = "ran"
    /\ returned.outcome # "returned"
    /\ pc' = "run_raised"
    /\ UNCHANGED <<coroutine, found, returned, delivered, winVars>>
    /\ UNCHANGED <<smartVars, benchVars, cmdVars>>
\* the main thread runs the slot connected by run_check
OnSmartCheckFinished ==
    /\ pc = "emitted"
    /\ coroutine = "run_smart_check"
    /\ window' = _on_smart_check_finished(window, delivered[Len(delivered)])
    /\ completed' = Append(completed, delivered[Len(delivered)])
    /\ pc' = "handled"
    /\ UNCHANGED <<threads, events>>
    /\ UNCHANGED workerVars
    /\ UNCHANGED <<smartVars, benchVars, cmdVars>>

NextCheck ==
    \/ AwaitOther
    \/ HasSmartctl
    \/ NextCmd
    \/ QuerySmartJson
    \/ SynthesizeReport
    \/ EmitFinished
    \/ Propagate
    \/ OnSmartCheckFinished
SpecCheck == InitCheck /\ [][NextCheck]_vars

(***************************************************************************)
(* ui/main_window.py: run_check and run_benchmark, the workers they start, *)
(* and the slots the main thread runs for the signals of the workers       *)
(*                                                                         *)
(* A signal emitted in a worker thread is queued for the main thread,      *)
(* which runs the connected slot later, in emission order.  A check worker *)
(* is an AsyncWorker: it emits finished with the report, or ends by an     *)
(* exception with nothing emitted.  A benchmark worker emits one progress  *)
(* per sample and then finished, or shows an error box and ends.           *)
(***************************************************************************)
\* the workers started in one run of the application
MaxWorkers == 2
\* BenchmarkWorker.sample_count of the workers of the window
WindowSamples == 2

\* what get_selected_device returns: None, or the path of the selected device
WindowDevices == {S_dev \o <<"s","d","a">>}
WindowOutputs == {S_PASSED, T_nvme_tree, T_number}

\* how run_smart_check(dev) can end
CheckOutcomes(dev) ==
    {synthesize_report(dev, query_smart_json(CommandResult("returned", returncode, stdout))) :
        returncode \in {0}, stdout \in WindowOutputs}
    \cup {Raised("SmartctlNotFoundError")}

Worker(kind, dev, total) ==
    [kind |-> kind, state |-> "running", device |-> dev, total_size |-> total, i |-> 0]
Event(signal, rep, percentage) ==
    [signal |-> signal, report |-> rep, percentage |-> percentage]
NoDeviceBox == Box("warning", "Erreur", "Aucun peripherique selectionne")
Running(kind) == {w \in 1..Len(threads) : threads[w].kind = kind /\ threads[w].state = "running"}

InitWindow ==
    /\ pc = "exec"
    /\ UiIdle
    /\ device = S_dev \o <<"s","d","a">>
    /\ payload = [json |-> PyNone, raw |-> PyNone]
    /\ SmartIdle
    /\ BenchIdle
    /\ CmdIdle

\* SmartMonitor.run_check
RunCheck ==
    /\ \E selected \in {<<>>} \cup WindowDevices :
          IF selected = <<>>
          THEN /\ window' = [window EXCEPT !.box = NoDeviceBox]
               /\ UNCHANGED threads
          ELSE /\ Len(threads) < MaxWorkers
               /\ window' = [window EXCEPT !.tab = 0]
               /\ threads' = Append(threads, Worker("check", selected, 0))
    /\ UNCHANGED <<pc, events, completed, workerVars>>
    /\ UNCHANGED <<smartVars, benchVars, cmdVars>>
\* SmartMonitor.run_benchmark
RunBenchmark ==
    /\ \E selected \in {<<>>} \cup WindowDevices, total \in {MaxSize} :
          IF selected = <<>>
          THEN /\ window' = [window EXCEPT !.box = NoDeviceBox]
               /\ UNCHANGED threads
          ELSE /\ Len(threads) < MaxWorkers
               /\ window' = show_progress([window EXCEPT !.tab = 1])
               /\ threads' = Append(threads, Worker("bench", selected, total))
    /\ UNCHANGED <<pc, events, completed, workerVars>>
    /\ UNCHANGED <<smartVars, benchVars, cmdVars>>
\* AsyncWorker.run of a check worker ends
CheckWorkerEnds ==
    /\ \E w \in Running("check") :
          \E ended \in CheckOutcomes(threads[w].device) :
             /\ threads' = [threads EXCEPT ![w].state = "ended"]
             /\ events' = IF ended.outcome = "returned"
                          THEN Append(events, Event("check_finished", ended, Quot(0, 1)))
                          ELSE events
    /\ UNCHANGED <<pc, window, completed, workerVars>>
    /\ UNCHANGED <<smartVars, benchVars, cmdVars>>
\* BenchmarkWorker._run_benchmark: one sample, self.progress.emit
BenchWorkerSamples ==
    /\ \E w \in Running("bench") :
          /\ threads[w].i < WindowSamples
          /\ threads' = [threads EXCEPT ![w].i = @ + 1]
          /\ events' = Append(events,
                 Event("progress", NoReport,
                       _calculate_position_percentage(
                           SeekPos(threads[w].i, threads[w].total_size, WindowSamples),
                           threads[w].total_size)))
    /\ UNCHANGED <<pc, window, completed, workerVars>>
    /\ UNCHANGED <<smartVars, benchVars, cmdVars>>
\* BenchmarkWorker.run: self.finished.emit(results)
BenchWorkerFinishes ==
    /\ \E w \in Running("bench") :
          /\ threads[w].i = WindowSamples
          /\ threads' = [threads EXCEPT ![w].state = "ended"]
          /\ events' = Append(events, Event("bench_finished", NoReport, Quot(0, 1)))
    /\ UNCHANGED <<pc, window, completed, workerVars>>
    /\ UNCHANGED <<smartVars, benchVars, cmdVars>>
\* BenchmarkWorker.run: an except clause shows its box and run returns
BenchWorkerFails ==
    /\ \E w \in Running("bench"), e \in RunErrors :
          /\ threads' = [threads EXCEPT ![w].state = "ended"]
          /\ window' = [window EXCEPT !.box = Box("critical", "Erreur", ErrorPath(e))]
    /\ UNCHANGED <<pc, events, completed, workerVars>>
    /\ UNCHANGED <<smartVars, benchVars, cmdVars>>
\* the main thread runs _on_smart_check_finished for the oldest queued signal
HandleCheckFinished ==
    /\ events # <<>>
    /\ Head(events).signal = "check_finished"
    /\ window' = _on_smart_check_finished(window, Head(events).report)
    /\ completed' = Append(completed, Head(events).report)
    /\ events' = Tail(events)
    /\ UNCHANGED <<pc, threads, workerVars>>
    /\ UNCHANGED <<smartVars, benchVars, cmdVars>>
\* the main thread runs _on_benchmark_progress
HandleProgress ==
    /\ events # <<>>
    /\ Head(events).signal = "progress"
    /\ window' = _on_benchmark_progress(window, Head(events).percentage)
    /\ events' = Tail(events)
    /\ UNCHANGED <<pc, threads, completed, workerVars>>
    /\ UNCHANGED <<smartVars, benchVars, cmdVars>>
\* the main thread runs _on_benchmark_finished
HandleBenchFinished ==
    /\ events # <<>>
    /\ Head(events).signal = "bench_finished"
    /\ window' = _on_benchmark_finished(window)
    /\ events' = Tail(events)
    /\ UNCHANGED <<pc, threads, completed, workerVars>>
    /\ UNCHANGED <<smartVars, benchVars, cmdVars>>

WorkerStep ==
    \/ CheckWorkerEnds
    \/ BenchWorkerSamples
    \/ BenchWorkerFinishes
    \/ BenchWorkerFails
MainThreadStep ==
    \/ HandleCheckFinished
    \/ HandleProgress
    \/ HandleBenchFinished
NextWindow ==
    \/ RunCheck
    \/ RunBenchmark
    \/ WorkerStep
    \/ MainThreadStep
SpecWindow == InitWindow /\ [][NextWindow]_vars
\* a started thread runs to the end of run, and the event loop of the main
\* thread runs the slots of the queued signals; nothing makes the user click
SpecWindowLive == SpecWindow /\ WF_vars(WorkerStep) /\ WF_vars(MainThreadStep)

(***************************************************************************)
(* Claims about the telemetry synthesis.                                   *)
(***************************************************************************)
\* s contains word in some mix of letter cases
ContainsAnyCase(word, s) ==
    \E j \in 0..(Len(s) - Len(word)) :
        \A k \in 1..Len(word) : s[j + k] \in {LowerChar(word[k]), UpperChar(word[k])}

Returned == pc = "synthesized" /\ report.outcome = "returned"
DocPresent == payload.json.kind # "none"

\* C1: whenever payload["json"] is not None (the empty document {} included),
\* the verdict of the report does not depend on the transcript, and a document
\* without a smart_status entry gives UNKNOWN whatever the transcript says.
C1_DocumentPrecedence ==
    (Returned /\ DocPresent) =>
        /\ report.health = synthesize_report(device, [payload EXCEPT !.raw = PyNone]).health
        /\ (~HasKey(payload.json, K_smart_status) => report.health = "UNKNOWN")

\* C2: synthesize_report returns a report for every device and payload,
\* whatever the shape of the values under the inspected keys.
C2_SynthesizeTotal == pc = "synthesized" => report.outcome = "returned"

\* C3: a device identifier containing "nvme" in any letter case is detected
\* as NVME, whatever the document.
C3_FamilyPrecedence ==
    (pc = "detected" /\ ContainsAnyCase(S_nvme, device)) => detected = Ok("NVME")
C3_Witness ==
    /\ pc = "detected"
    /\ device = S_dev \o <<"N","v","M","e">>
    /\ payload.json = Document(Absent, Absent, OneTable, Absent)
    /\ detected = Ok("NVME")

\* C4: for a device identifier without "nvme", the family is NVME when the
\* document has the NVMe key, else SATA_ATA when it has the ATA key, else
\* UNKNOWN (also when there is no document).
FamilyOfDocument(doc) ==
    IF doc.kind = "dict" /\ HasKey(doc, K_nvme_log) THEN "NVME"
    ELSE IF doc.kind = "dict" /\ HasKey(doc, K_ata_attrs) THEN "SATA_ATA"
    ELSE "UNKNOWN"
C4_FamilyFromDocument ==
    (pc = "detected" /\ ~ContainsAnyCase(S_nvme, device)) =>
        detected = Ok(FamilyOfDocument(payload.json))
C4_Witness ==
    /\ pc = "detected"
    /\ ~ContainsAnyCase(S_nvme, device)
    /\ Len(device) = Len(S_dev) + MaxDevLen
    /\ payload.json = Document(Absent, OneBlock, OneTable, Absent)
    /\ detected = Ok("NVME")

\* C5: the verdict of a document is PASSED or FAILED by the truth of
\* smart_status["passed"], and UNKNOWN when smart_status has no such field or
\* is missing; a smart_status that is a key-value tree, or missing, always
\* gets a verdict.
VerdictOfDocument(doc) ==
    IF HasKey(doc, K_smart_status) /\ Lookup(doc, K_smart_status).kind = "dict"
       /\ HasKey(Lookup(doc, K_smart_status), K_passed)
    THEN IF Truthy(Lookup(Lookup(doc, K_smart_status), K_passed))
         THEN "PASSED" ELSE "FAILED"
    ELSE "UNKNOWN"
StatusIsTree(doc) ==
    HasKey(doc, K_smart_status) => Lookup(doc, K_smart_status).kind = "dict"
C5_HealthFromDocument ==
    pc = "json_health" =>
        /\ StatusIsTree(payload.json) => verdict.exc = ""
        /\ verdict.exc = "" => verdict.val = VerdictOfDocument(payload.json)
        /\ verdict.exc = "" => verdict.val \in {"PASSED", "FAILED", "UNKNOWN"}
C5_Witness ==
    /\ pc = "json_health"
    /\ HasKey(payload.json, K_smart_status)
    /\ Lookup(payload.json, K_smart_status) = PyDict(<<K_passed>>, <<PyNone>>)
    /\ verdict = Ok("FAILED")

\* C6: without a document the verdict comes from the transcript: UNKNOWN for
\* an absent or empty one, PASSED if it contains PASSED or OK in any case,
\* else FAILED if it contains FAILED, else UNKNOWN.
VerdictOfTranscript(raw) ==
    IF raw.kind # "str" \/ raw.s = <<>> THEN "UNKNOWN"
    ELSE IF ContainsAnyCase(S_PASSED, raw.s) \/ ContainsAnyCase(S_OK, raw.s) THEN "PASSED"
    ELSE IF ContainsAnyCase(S_FAILED, raw.s) THEN "FAILED"
    ELSE "UNKNOWN"
C6_TranscriptFallback ==
    /\ pc = "raw_health" => verdict = Ok(VerdictOfTranscript(payload.raw))
    /\ (pc = "synthesized" /\ ~DocPresent) =>
          /\ report.outcome = "returned"
          /\ report.health = VerdictOfTranscript(payload.raw)
C6_Witness ==
    /\ pc = "synthesized"
    /\ ~DocPresent
    /\ payload.raw = PyStr(<<"F","a","i","l","e","d">> \o <<" ">> \o <<"p","a","s","s","e","d">>)
    /\ report.health = "PASSED"

\* C7: a report of family NVME built from a present document has one
\* attribute per key of the NVMe block, in key order, with id "-", the key as
\* name, empty worst and thresh, and raw equal to value; none without a block.
NvmeAttributeOf(block, j) ==
    [id |-> PyStr(S_dash), name |-> PyStr(block.keys[j]), value |-> block.vals[j],
     worst |-> EmptyStr, thresh |-> EmptyStr, raw |-> block.vals[j]]
C7_NvmeAttributes ==
    (Returned /\ DocPresent /\ report.disk_type = "NVME") =>
        IF HasKey(payload.json, K_nvme_log)
        THEN LET block == Lookup(payload.json, K_nvme_log)
             IN  /\ Len(report.attributes) = Len(block.keys)
                 /\ \A j \in 1..Len(block.keys) :
                        report.attributes[j] = NvmeAttributeOf(block, j)
        ELSE report.attributes = <<>>
C7_Witness ==
    /\ Returned
    /\ report.disk_type = "NVME"
    /\ ~ContainsAnyCase(S_nvme, device)
    /\ HasKey(payload.json, K_nvme_log)
    /\ Len(report.attributes) = MaxNvmeKeys
    /\ report.attributes[1].name = PyStr(<<"t","e","m","p","e","r","a","t","u","r","e">>)
    /\ report.attributes[1].raw = PyInt(33)

\* C8: a report of family SATA_ATA has one attribute per row of the ATA
\* table, in table order, each field the row's value for the key or "" when
\* the row omits it; none when there is no table.
FieldOf(row, k) == IF HasKey(row, k) THEN Lookup(row, k) ELSE EmptyStr
AtaAttributeOf(row) ==
    [id |-> FieldOf(row, K_id), name |-> FieldOf(row, K_name),
     value |-> FieldOf(row, K_value), worst |-> FieldOf(row, K_worst),
     thresh |-> FieldOf(row, K_thresh), raw |-> FieldOf(row, K_raw)]
TableRows(doc) ==
    LET ata == Lookup(doc, K_ata_attrs)
    IN  IF HasKey(ata, K_table) /\ Lookup(ata, K_table).kind = "list"
        THEN Lookup(ata, K_table).elems ELSE <<>>
C8_AtaAttributes ==
    (Returned /\ report.disk_type = "SATA_ATA") =>
        /\ Len(report.attributes) = Len(TableRows(payload.json))
        /\ \A j \in 1..Len(TableRows(payload.json)) :
               report.attributes[j] = AtaAttributeOf(TableRows(payload.json)[j])
C8_Witness ==
    /\ Returned
    /\ report.disk_type = "SATA_ATA"
    /\ Len(report.attributes) = MaxRows
    /\ TableRows(payload.json)[1] = PartialRow
    /\ TableRows(payload.json)[MaxRows] = FullRow
    /\ report.attributes[1].id = PyInt(9)
    /\ report.attributes[1].worst = EmptyStr
    /\ report.attributes[MaxRows].thresh = PyInt(10)

\* C9: a report of family UNKNOWN, and a report built without a document,
\* has no attributes.
C9_NoAttributes ==
    (Returned /\ (report.disk_type = "UNKNOWN" \/ ~DocPresent)) =>
        report.attributes = <<>>
C9_Witness ==
    /\ Returned
    /\ report.disk_type = "UNKNOWN"
    /\ HasKey(payload.json, K_other)
    /\ HasKey(payload.json, K_smart_status)
    /\ report.attributes = <<>>

(***************************************************************************)
(* Claims about the benchmark run.                                         *)
(***************************************************************************)
\* the offset of the k-th seek of the run and the percentage emitted for it
OffsetOfSample(k) == ((k - 1) * total_size) \div sample_count
PercentOfOffset(offset) ==
    IF total_size <= 0 THEN Quot(0, 1) ELSE Quot(offset * 100, total_size)

\* C10 as stated: the observations of a run are emitted in strictly
\* increasing offset and position percentage order, for every device size and
\* every positive sample count.
C10_StrictlyIncreasing ==
    \A j, k \in 1..Len(emitted) :
        j < k => /\ seeks[j] < seeks[k]
                 /\ Less(emitted[j].percentage, emitted[k].percentage)

\* C10 amended: the k-th observation emitted is that of sample index k - 1,
\* so offsets and percentages never decrease along the emissions, and they
\* increase strictly when the device size is at least the sample count.
C10_EmissionOrder ==
    /\ Len(emitted) <= Len(seeks)
    /\ Len(seeks) <= Len(emitted) + 1
    /\ Len(emitted) = i
    /\ \A k \in 1..Len(seeks) : seeks[k] = OffsetOfSample(k)
    /\ \A k \in 1..Len(emitted) : emitted[k].percentage = PercentOfOffset(seeks[k])
    /\ \A j, k \in 1..Len(emitted) :
          j < k => /\ seeks[j] <= seeks[k]
                   /\ ~Less(emitted[k].percentage, emitted[j].percentage)
    /\ total_size >= sample_count =>
          \A j, k \in 1..Len(emitted) :
              j < k => /\ seeks[j] < seeks[k]
                       /\ Less(emitted[j].percentage, emitted[k].percentage)
C10_Witness ==
    /\ outcome = "finished"
    /\ sample_count = MaxSamples
    /\ Len(emitted) = MaxSamples
    /\ total_size = MaxSize
    /\ seeks[MaxSamples] > seeks[1]

\* the series of one field of the observations, in emission order
SeriesOf(field) == [k \in 1..Len(emitted) |-> emitted[k][field]]

\* C11: in a run without I/O failure, sample k (counted from 0) seeks to
\* floor(k * total_size / sample_count), every observation is emitted before
\* the next sample's seek begins, exactly sample_count observations are emitted,
\* and the three series of the one summary have length sample_count and hold
\* the emitted values in emission order.
C11_RunShape ==
    /\ \A k \in 1..Len(seeks) : seeks[k] = ((k - 1) * total_size) \div sample_count
    /\ Len(seeks) <= Len(emitted) + 1
    /\ (pc = "seek" => Len(seeks) = Len(emitted))
    /\ (outcome = "finished" =>
          /\ Len(seeks) = sample_count
          /\ Len(emitted) = sample_count
          /\ Len(finished) = 1
          /\ Len(finished[1].read_speeds) = sample_count
          /\ Len(finished[1].access_times) = sample_count
          /\ Len(finished[1].positions) = sample_count
          /\ finished[1].read_speeds = SeriesOf("read_speed")
          /\ finished[1].access_times = SeriesOf("access_time")
          /\ finished[1].positions = SeriesOf("percentage"))
C11_Witness ==
    /\ outcome = "finished"
    /\ sample_count = MaxSamples
    /\ total_size = MaxSize
    /\ seeks[MaxSamples] > seeks[2]
    /\ emitted[1].read_speed # emitted[2].read_speed
    /\ emitted[1].access_time # emitted[2].access_time
    /\ finished[1].access_times[2] = emitted[2].access_time

ErrorOutcomes == {"permission_error", "generic_error"}
C12_State ==
    /\ (outcome \in ErrorOutcomes => finished = <<>>)
    /\ Len(finished) <= 1
    /\ (finished # <<>> => Len(emitted) = sample_count /\ outcome = "finished")
C12_Step ==
    /\ (outcome' \in ErrorOutcomes => emitted' = emitted)
    /\ (outcome \in ErrorOutcomes => emitted' = emitted /\ finished' = finished)
    /\ Len(emitted') >= Len(emitted)
    /\ SubSeq(emitted', 1, Len(emitted)) = emitted
\* C12: when opening the device or a seek or read fails, no finished event is
\* emitted, the observations emitted before the failure remain and none is
\* emitted after it; finished is emitted at most once, and only after all
\* sample_count observations.
C12_Abort == C12_State /\ [][C12_State' /\ C12_Step]_vars
C12_Witness ==
    /\ outcome = "generic_error"
    /\ Len(emitted) = 2
    /\ Len(seeks) = 3
    /\ sample_count = MaxSamples
    /\ finished = <<>>

ZeroSummary ==
    BenchmarkResults(<<>>, <<>>, <<>>, FZero, FZero, FZero, FZero, FZero, FZero)
\* C13: a run with sample_count = 0 or with a device of size 0 does not fail
\* and ends with the zero-value summary: six scalars 0.0, three empty series.
C13_ZeroSummary ==
    (pc = "done" /\ outcome \notin ErrorOutcomes /\ (sample_count = 0 \/ total_size = 0)) =>
        /\ outcome = "finished"
        /\ finished = <<ZeroSummary>>

\* C19: every emitted observation has a read speed >= 0 and a seek latency
\* >= 0, whatever the two readings of the clock around the seek and the read.
C19_NonNegative ==
    \A k \in 1..Len(emitted) :
        /\ FLeq(FZero, emitted[k].read_speed)
        /\ FLeq(FZero, emitted[k].access_time)

(***************************************************************************)
(* Claims about the functions of benchmark.py.                             *)
(***************************************************************************)
ReturnedFrom(fn) == pc = "returned" /\ args.fn = fn

\* every element of s is at least x, and x is one of them
IsSmallest(x, s) ==
    /\ \E k \in 1..Len(s) : s[k] = x
    /\ \A k \in 1..Len(s) : FLeq(x, s[k])
IsLargest(x, s) ==
    /\ \E k \in 1..Len(s) : s[k] = x
    /\ \A k \in 1..Len(s) : FLeq(s[k], x)
\* the statistics of one series taken alone: 0.0 three times when it is
\* empty, its own mean, minimum and maximum otherwise
OwnStats(avg, min, max, s) ==
    IF s = <<>> THEN avg = FZero /\ min = FZero /\ max = FZero
    ELSE /\ avg = FDiv(np_sum(s, Len(s)), FromInt(Len(s)))
         /\ IsSmallest(min, s)
         /\ IsLargest(max, s)

\* C14: compute_benchmark_stats of three series of any lengths raises no
\* error, returns each series unchanged, and computes the speed statistics
\* over the speed series alone and the latency statistics over the latency
\* series alone, whatever the length of the speed series, zero included.
C14_IndependentSeries ==
    ReturnedFrom("compute_benchmark_stats") =>
        /\ result.read_speeds = args.read_speeds
        /\ result.access_times = args.access_times
        /\ result.positions = args.positions
        /\ OwnStats(result.avg_read_speed, result.min_read_speed,
                    result.max_read_speed, args.read_speeds)
        /\ OwnStats(result.avg_access_time, result.min_access_time,
                    result.max_access_time, args.access_times)

\* C15: compute_benchmark_stats([], [], []) returns the six statistics 0.0
\* and three empty series.
C15_EmptyAggregation ==
    (/\ ReturnedFrom("compute_benchmark_stats")
     /\ args.read_speeds = <<>>
     /\ args.access_times = <<>>
     /\ args.positions = <<>>) =>
        /\ result.read_speeds = <<>>
        /\ result.access_times = <<>>
        /\ result.positions = <<>>
        /\ \A f \in {"avg_read_speed", "min_read_speed", "max_read_speed",
                     "avg_access_time", "min_access_time", "max_access_time"} :
               result[f] = FZero
C15_Witness ==
    /\ ReturnedFrom("compute_benchmark_stats")
    /\ args.read_speeds = <<>>
    /\ args.access_times = <<>>
    /\ args.positions = <<>>
    /\ result.avg_read_speed = FZero
    /\ result.positions = <<>>

\* C16: for a non-empty speed series the minimum is its smallest element, the
\* maximum its largest, and min <= avg <= max; a series of one element gives
\* avg = min = max.
C16_MeanBetweenMinAndMax ==
    (ReturnedFrom("compute_benchmark_stats") /\ args.read_speeds # <<>>) =>
        /\ IsSmallest(result.min_read_speed, args.read_speeds)
        /\ IsLargest(result.max_read_speed, args.read_speeds)
        /\ FLeq(result.min_read_speed, result.avg_read_speed)
        /\ FLeq(result.avg_read_speed, result.max_read_speed)
        /\ (Len(args.read_speeds) = 1 =>
               /\ result.avg_read_speed = args.read_speeds[1]
               /\ result.min_read_speed = args.read_speeds[1]
               /\ result.max_read_speed = args.read_speeds[1])

\* the quotient q is exactly num / den
QuotIs(q, num, den) == q.num * den = num * q.den

\* C17: _calculate_position_percentage returns 0.0 when total_size <= 0, and
\* position / total_size * 100 otherwise, without clamping: 100 when position
\* = total_size, more than 100 when position > total_size (150 for 1500 of
\* 1000).
C17_PositionPercentage ==
    ReturnedFrom("_calculate_position_percentage") =>
        IF args.total_size <= 0 THEN result = Quot(0, 1)
        ELSE /\ QuotIs(result, args.position * 100, args.total_size)
             /\ (args.position = args.total_size => QuotIs(result, 100, 1))
             /\ (args.position > args.total_size => Less(Quot(100, 1), result))
             /\ (args.position < args.total_size => Less(result, Quot(100, 1)))
             /\ (args.position = 1500 /\ args.total_size = 1000 => QuotIs(result, 150, 1))
C17_Witness ==
    /\ ReturnedFrom("_calculate_position_percentage")
    /\ args.position = 1500
    /\ args.total_size = 1000
    /\ QuotIs(result, 150, 1)

\* C18: the read speed is 0.0 when the elapsed time is <= 0 or no byte was
\* read, and bytes / (1024 * 1024) / elapsed otherwise; no division by zero
\* occurs for any elapsed time.
C18_ReadSpeed ==
    /\ ReturnedFrom("_calculate_read_speed") =>
          /\ result.exc = ""
          /\ (FLeq(args.elapsed_time, FZero) => result.val = FZero)
          /\ (FLess(FZero, args.elapsed_time) =>
                 /\ result.val = FDiv(IntDiv(args.data_size, 1048576), args.elapsed_time)
                 /\ (args.data_size > 0 <=> FLess(FZero, result.val)))
          /\ (args.data_size = 4194304 /\ args.elapsed_time = Fl(1, 0) => result.val = Fl(1, 2))
          /\ (args.data_size = 1048576 /\ args.elapsed_time = Fl(1, -1) => result.val = Fl(1, 1))
    /\ ReturnedFrom("_measure_read_speed") =>
          /\ result.exc = ""
          /\ (args.data_len = 0 \/ FLeq(args.end_time, args.start_time) => result.val = FZero)
          /\ (args.data_len > 0 /\ FLess(args.start_time, args.end_time) =>
                 result.val = FDiv(IntDiv(args.data_len, 1048576),
                                   FSub(args.end_time, args.start_time)))
C18_Witness ==
    /\ ReturnedFrom("_calculate_read_speed")
    /\ args.data_size = 4194304
    /\ args.elapsed_time = FZero
    /\ result = Ok(FZero)

(***************************************************************************)
(* Claims about run_cmd.                                                   *)
(***************************************************************************)
\* C20: whenever the timeout of run_cmd expires, during the creation of the
\* subprocess or while its output is awaited, the child, if it was started,
\* is killed and reaped, and run_cmd ends with TimeoutError, never with a
\* result or another error.
C20_TimeoutIsTimeoutError ==
    (pc = "cmd_done" /\ expired) =>
        /\ cmd_result.outcome = "TimeoutError"
        /\ child.state \in {"none", "reaped"}

(***************************************************************************)
(* Claims about the error paths, the purity of the synthesis and the       *)
(* range of the position percentage.                                       *)
(***************************************************************************)
\* C21: a PermissionError raised by opening or reading the device is shown
\* through the permission error box and never through the generic one; every
\* other OSError and every RuntimeError is shown through the generic box;
\* a failed run shows exactly one of the two boxes.
C21_ErrorPaths ==
    /\ (error = "" => shown = <<>>)
    /\ (error = "PermissionError" => shown = <<"permission_error">>)
    /\ (error \in RunErrors \ {"PermissionError"} => shown = <<"generic_error">>)
    /\ (pc = "done" /\ outcome \in ErrorOutcomes =>
           /\ error \in RunErrors
           /\ Len(shown) = 1
           /\ shown[1] = outcome)
C21_Witness ==
    /\ pc = "done"
    /\ error = "PermissionError"
    /\ shown = <<"permission_error">>
    /\ Len(seeks) = 2
    /\ Len(emitted) = 1

C26_State ==
    Returned =>
        /\ report.device = device
        /\ report.raw = payload.raw
        /\ report.json_data = payload.json
        /\ report = synthesize_report(device, payload)
C26_Step ==
    (pc = "start" /\ pc' = "synthesized") =>
        /\ payload' = payload
        /\ device' = device
        /\ UNCHANGED <<benchVars, cmdVars, uiVars>>
\* C26: synthesize_report changes nothing but its result: no command is run,
\* no device is read, the payload is left as it was, the report carries the
\* device identifier, the transcript and the document as given, and a second
\* call with the same arguments gives an equal report.
C26_NoEffect == C26_State /\ [][C26_State' /\ C26_Step]_vars
C26_Witness ==
    /\ Returned
    /\ device = S_dev \o <<"N","V","M","e","0">>
    /\ payload.json.kind = "dict"
    /\ Len(payload.json.keys) >= 1
    /\ payload.raw.kind = "str"
    /\ report.json_data = payload.json
    /\ report.raw = payload.raw

\* position / total * 100 as the float arithmetic computes it
PercentAsFloat(position, total) == FMul(IntDiv(position, total), FromInt(100))

\* C27: in a run on a device of size total_size > 0 every sampled offset is
\* at least 0 and less than total_size, so every emitted percentage is at
\* least 0 and less than 100; on a device of size 0 every emitted percentage
\* is 0.0.
C27_PercentBelow100 ==
    /\ \A k \in 1..Len(seeks) :
          total_size > 0 => (0 <= seeks[k] /\ seeks[k] < total_size)
    /\ \A k \in 1..Len(emitted) :
          IF total_size > 0
          THEN /\ ~Less(emitted[k].percentage, Quot(0, 1))
               /\ Less(emitted[k].percentage, Quot(100, 1))
               /\ FLess(PercentAsFloat(seeks[k], total_size), FromInt(100))
          ELSE emitted[k].percentage = Quot(0, 1)
C27_Witness ==
    /\ outcome = "finished"
    /\ total_size = MaxSize
    /\ sample_count = MaxSamples
    /\ Len(emitted) = MaxSamples
    /\ Less(Quot(50, 1), emitted[MaxSamples].percentage)
    /\ Less(emitted[MaxSamples].percentage, Quot(100, 1))

(***************************************************************************)
(* Claims about the check pipeline and its worker.                         *)
(***************************************************************************)
CheckEnded == pc \in {"handled", "run_raised"}
AfterQuery == pc \in {"synthesize", "ran", "emitted", "handled", "run_raised"}

\* C22: when smartctl cannot be resolved, query_smart_json raises
\* SmartctlNotFoundError before any command is executed, no report is
\* produced, and the failure reaches the check-completion handler of the main
\* window as a distinct tool-unavailable condition: it is never dropped.
C22_NotFoundDelivered ==
    (coroutine = "run_smart_check" /\ returned.outcome = "SmartctlNotFoundError") =>
        /\ ~found
        /\ cmd_result = NoCommand
        /\ child = NoChild
        /\ report = NoReport
        /\ pc # "run_raised"
        /\ (pc \in {"emitted", "handled"} =>
                delivered = <<Raised("SmartctlNotFoundError")>>)
        /\ (pc = "handled" =>
                /\ completed = <<Raised("SmartctlNotFoundError")>>
                /\ window.box = Box("critical", "Smartctl introuvable",
                                     "SmartctlNotFoundError"))

\* C23: when the command exits with a non-zero code, run_smart_check reports
\* a distinct error condition and synthesize_report is not invoked on the
\* output of the failed command.
C23_NonZeroExitIsError ==
    (coroutine = "run_smart_check" /\ cmd_result.outcome = "returned"
        /\ cmd_result.returncode # 0) =>
        /\ pc # "synthesize"
        /\ report = NoReport
        /\ (AfterQuery => returned.outcome \notin {"none", "returned"})

\* C24: when smartctl is available and the command has returned, the payload
\* carries the standard output as raw; json is the parsed document only when
\* the exit code is 0, the output is not blank and it parses to a key-value
\* tree; in every other case json is absent, the report takes its health from
\* the transcript and has no attributes, and no exception reaches the caller.
C24_DocumentOrAbsent ==
    (coroutine = "run_smart_check" /\ found /\ cmd_result.outcome = "returned"
        /\ AfterQuery) =>
        LET parsed == json_loads(cmd_result.stdout)
            usable == /\ cmd_result.returncode = 0
                      /\ Strip(cmd_result.stdout) # <<>>
                      /\ parsed.exc = ""
                      /\ parsed.val.kind = "dict"
        IN  /\ payload.raw = PyStr(cmd_result.stdout)
            /\ IF usable THEN payload.json = parsed.val
               ELSE /\ payload.json = PyNone
                    /\ (pc # "synthesize" =>
                            /\ returned.outcome = "returned"
                            /\ report.health = _determine_health_from_raw(payload.raw).val
                            /\ report.attributes = <<>>)

\* C25: AsyncWorker emits finished exactly once, carrying the value the
\* coroutine returned (None included), if and only if the coroutine completes
\* normally; when the coroutine raises, the exception leaves run and finished
\* is never emitted.
C25_FinishedIffReturned ==
    /\ Len(delivered) <= 1
    /\ (pc \in {"asyncio_run", "ran", "run_raised"} => delivered = <<>>)
    /\ (pc \in {"emitted", "handled"} =>
            /\ returned.outcome = "returned"
            /\ delivered = <<returned.value>>)
    /\ (pc = "run_raised" => returned.outcome \notin {"none", "returned"})
    /\ (pc = "ran" /\ returned.outcome = "returned" => ENABLED EmitFinished)
C25_Witness ==
    /\ pc = "emitted"
    /\ coroutine = "returns_none"
    /\ delivered = <<PyNone>>
C25_WitnessRaised ==
    /\ pc = "run_raised"
    /\ coroutine = "raises"
    /\ delivered = <<>>

(***************************************************************************)
(* Claims about the main window.                                           *)
(***************************************************************************)
\* C28: every benchmark started from the main window eventually leaves the
\* progress bar hidden: once run_benchmark has shown the bar, hide_progress
\* is eventually called, whether the run ends with results, with the
\* permission error or with the generic error.
C28_EventuallyHidden == [](window.progress_visible => <>(~window.progress_visible))

\* the benchmark workers that run, before and after a step
OneRunInProgress == Cardinality(Running("bench")) = 1
C29_Step ==
    (OneRunInProgress /\ OneRunInProgress' /\ Running("bench")' = Running("bench")) =>
        window'.progress_value >= window.progress_value

\* C29: in every interleaving of run_benchmark requests and worker events,
\* the progress bar is visible whenever a started benchmark worker has not
\* ended, and the value shown never decreases while a single run is in
\* progress.
C29_VisibleWhileRunning ==
    /\ [](Running("bench") # {} => window.progress_visible)
    /\ [][C29_Step]_vars

\* completions that carry an error
ErrorCompletions ==
    {Raised("SmartctlNotFoundError"), Raised("TimeoutError"), Raised("TypeError")}
SameReportShown(before, after) ==
    /\ after.current_report = before.current_report
    /\ after.health_label = before.health_label
    /\ after.table = before.table
    /\ after.raw_text = before.raw_text

\* C30: in every interleaving of run_check requests and check completions,
\* current_report, the health label and the table show one and the same
\* report, the one of the last completion handled, and the table has the
\* columns of that report's family (4 for NVME, 7 otherwise); before any
\* completion they are as the constructor left them; a completion that
\* carries an error leaves all of them unchanged.
C30_OneReportShown ==
    /\ IF completed = <<>>
       THEN SameReportShown(InitialWindow, window)
       ELSE LET last == completed[Len(completed)]
            IN  /\ last.outcome = "returned"
                /\ window.current_report = last
                /\ window.health_label.text = <<"Sante: ", last.health>>
                /\ window.table.current_disk_type = last.disk_type
                /\ window.table.row_count = Len(last.attributes)
                /\ window.table.headers =
                       IF last.disk_type = "NVME" THEN Headers4 ELSE Headers7
                /\ window.raw_text = last.raw
    /\ \A failure \in ErrorCompletions :
          SameReportShown(window, _on_smart_check_finished(window, failure))
C30_Witness ==
    /\ Len(completed) = 2
    /\ completed[1].disk_type = "UNKNOWN"
    /\ completed[2].disk_type = "NVME"
    /\ window.current_report = completed[2]
    /\ window.table.headers = Headers4
    /\ window.table.row_count = 1
    /\ events = <<>>

====
